---- MODULE Spec2Model ----
(***************************************************************************)
(* Record reconstruction from OCR text blocks and spreadsheet rows:        *)
(* anchor selection, field classification, record assembly and image       *)
(* association, as implemented by the Python scripts of the repository.    *)
(*                                                                         *)
(* A text is a sequence of one-character strings, so that the regular      *)
(* expressions and substring tests of the scripts are computed on the      *)
(* characters.                                                             *)
(***************************************************************************)
EXTENDS Integers, Sequences, FiniteSets, TLC

----------------------------------------------------------------------------
(* Python string primitives                                                *)

UpperChars ==
  << "A", "B", "C", "D", "E", "F", "G", "H", "I", "J", "K", "L", "M",
     "N", "O", "P", "Q", "R", "S", "T", "U", "V", "W", "X", "Y", "Z",
     "Á", "É", "Ó", "Ô", "Ê", "Ç" >>

LowerChars ==
  << "a", "b", "c", "d", "e", "f", "g", "h", "i", "j", "k", "l", "m",
     "n", "o", "p", "q", "r", "s", "t", "u", "v", "w", "x", "y", "z",
     "á", "é", "ó", "ô", "ê", "ç" >>

DigitChars == << "0", "1", "2", "3", "4", "5", "6", "7", "8", "9" >>

IndexIn(c, seq) ==
  IF \E i \in 1..Len(seq) : seq[i] = c
  THEN CHOOSE i \in 1..Len(seq) : seq[i] = c
  ELSE 0

IsDigit(c) == IndexIn(c, DigitChars) > 0

IsUpperChar(c) == IndexIn(c, UpperChars) > 0

IsLowerChar(c) == IndexIn(c, LowerChars) > 0

\* re: [A-Z] (ASCII only)
IsAsciiUpper(c) == IndexIn(c, SubSeq(UpperChars, 1, 26)) > 0

IsAsciiLower(c) == IndexIn(c, SubSeq(LowerChars, 1, 26)) > 0

LowerChar(c) == IF IsUpperChar(c) THEN LowerChars[IndexIn(c, UpperChars)] ELSE c

UpperChar(c) == IF IsLowerChar(c) THEN UpperChars[IndexIn(c, LowerChars)] ELSE c

\* str.lower()
Lower(t) == [i \in 1..Len(t) |-> LowerChar(t[i])]

\* str.capitalize()
Capitalize(t) ==
  [i \in 1..Len(t) |-> IF i = 1 THEN UpperChar(t[i]) ELSE LowerChar(t[i])]

\* s in t
Contains(t, s) ==
  \E i \in 0..(Len(t) - Len(s)) : \A k \in 1..Len(s) : t[i + k] = s[k]

\* t.startswith(s)
StartsWith(t, s) == Len(s) <= Len(t) /\ SubSeq(t, 1, Len(s)) = s

\* str.strip()
Strip(t) ==
  LET ns == {i \in 1..Len(t) : t[i] # " "}
  IN  IF ns = {} THEN << >>
      ELSE SubSeq(t, CHOOSE i \in ns : \A j \in ns : i <= j,
                     CHOOSE i \in ns : \A j \in ns : j <= i)

\* t.replace(a, "") for a single character a
RemoveChar(t, a) == SelectSeq(t, LAMBDA c : c # a)

\* t.replace(a, b) for single characters a, b
ReplaceChar(t, a, b) == [i \in 1..Len(t) |-> IF t[i] = a THEN b ELSE t[i]]

RECURSIVE Join(_, _)
\* sep.join(texts)
Join(texts, sep) ==
  IF texts = << >> THEN << >>
  ELSE IF Len(texts) = 1 THEN texts[1]
  ELSE texts[1] \o sep \o Join(Tail(texts), sep)

\* text.split(): the maximal runs of non-blank characters
Split(t) ==
  LET starts == {i \in 1..Len(t) : t[i] # " " /\ (i = 1 \/ t[i - 1] = " ")}
      EndOf(i) == CHOOSE j \in i..Len(t) :
                    /\ \A k \in i..j : t[k] # " "
                    /\ (j = Len(t) \/ t[j + 1] = " ")
      RECURSIVE Words(_)
      Words(i) ==
        IF i > Len(t) THEN << >>
        ELSE IF i \in starts THEN << SubSeq(t, i, EndOf(i)) >> \o Words(EndOf(i) + 1)
        ELSE Words(i + 1)
  IN  Words(1)

RECURSIVE IntToStr(_)
\* str(n) for a natural number
IntToStr(n) ==
  IF n < 10 THEN << DigitChars[n + 1] >>
  ELSE IntToStr(n \div 10) \o << DigitChars[(n % 10) + 1] >>

DigitVal(c) == IndexIn(c, DigitChars) - 1

RECURSIVE DigitsValue(_)
DigitsValue(ds) ==
  IF ds = << >> THEN 0
  ELSE 10 * DigitsValue(SubSeq(ds, 1, Len(ds) - 1)) + DigitVal(ds[Len(ds)])

\* the value of a run of digits (0 for the empty run); Python integers are
\* unbounded, here every value of ten digits or more is read as 10^9, which
\* is above every amount the scripts compare with
StrToNat(ds) ==
  LET nz  == {i \in 1..Len(ds) : ds[i] # "0"}
      sig == IF nz = {} THEN << >>
             ELSE SubSeq(ds, CHOOSE i \in nz : \A j \in nz : i <= j, Len(ds))
  IN  IF Len(sig) >= 10 THEN 1000000000 ELSE DigitsValue(sig)

\* float(s) for s made of digits and ".": ok is FALSE where Python raises
\* ValueError; the value is ip + 0.fr
ParseFloat(s) ==
  LET dots == {i \in 1..Len(s) : s[i] = "."}
      d    == IF dots = {} THEN Len(s) + 1 ELSE CHOOSE i \in dots : TRUE
  IN  [ok |-> Cardinality(dots) <= 1 /\ \E i \in 1..Len(s) : IsDigit(s[i]),
       ip |-> StrToNat(SubSeq(s, 1, d - 1)),
       fr |-> SubSeq(s, d + 1, Len(s))]

RECURSIVE Pow2(_)
Pow2(n) == IF n = 0 THEN 1 ELSE 2 * Pow2(n - 1)

RECURSIVE Pow2Mod100(_)
Pow2Mod100(n) == IF n = 0 THEN 1 ELSE (2 * Pow2Mod100(n - 1)) % 100

\* float(s) * 100 for s = c / 100, c a positive whole number of hundredths:
\* whether the product of the two doubles is below c. With e the binary
\* exponent of c / 100, the double nearest to c / 100 is below it by
\* r / (100 * 2^(52 - e)), r = c * 2^(52 - e) mod 100, when r < 50, and the
\* product then rounds to a double below c when r > 32 and c < 128 * 2^e
LosesCent(c) ==
  LET e == IF c >= 100
           THEN CHOOSE x \in 0..23 : 100 * Pow2(x) <= c /\ c < 200 * Pow2(x)
           ELSE 0 - (CHOOSE x \in 1..7 : 100 <= c * Pow2(x) /\ c * Pow2(x) < 200)
      r == ((c % 100) * Pow2Mod100(52 - e)) % 100
  IN  /\ c % 100 # 0
      /\ c < 1000000000
      /\ IF e >= 0 THEN c < 128 * Pow2(e) ELSE c * Pow2(-e) < 128
      /\ 32 < r /\ r < 50

\* int(value * 100) for a parsed value: the product of the doubles,
\* truncated
TimesHundred(f) ==
  LET exact == f.ip * 100
               + (IF Len(f.fr) >= 1 THEN 10 * DigitVal(f.fr[1]) ELSE 0)
               + (IF Len(f.fr) >= 2 THEN DigitVal(f.fr[2]) ELSE 0)
      whole == \A k \in 3..Len(f.fr) : f.fr[k] = "0"
  IN  IF whole /\ exact > 0 /\ LosesCent(exact) THEN exact - 1 ELSE exact

\* the end of the maximal run of characters of the class that starts at i
\* (i - 1 when t[i] is not of the class)
RunEnd(t, i, class) ==
  IF i > Len(t) \/ t[i] \notin class THEN i - 1
  ELSE CHOOSE j \in i..Len(t) :
         /\ \A k \in i..j : t[k] \in class
         /\ (j = Len(t) \/ t[j + 1] \notin class)

\* re: \d
DigitClass == {DigitChars[k] : k \in 1..Len(DigitChars)}

\* re: \s, for the characters of the texts
SpaceClass == {" "}

----------------------------------------------------------------------------
(* Lexicons of paddle_ocr_extractor.py                                     *)

COLOR_LIST ==
  << <<"p", "r", "e", "t", "o">>,
     <<"b", "r", "a", "n", "c", "o">>,
     <<"a", "z", "u", "l">>,
     <<"v", "e", "r", "m", "e", "l", "h", "o">>,
     <<"v", "e", "r", "d", "e">>,
     <<"a", "m", "a", "r", "e", "l", "o">>,
     <<"l", "a", "r", "a", "n", "j", "a">>,
     <<"r", "o", "x", "o">>,
     <<"r", "o", "s", "a">>,
     <<"m", "a", "r", "r", "o", "m">>,
     <<"c", "i", "n", "z", "a">>,
     <<"b", "e", "g", "e">>,
     <<"d", "o", "u", "r", "a", "d", "o">>,
     <<"p", "r", "a", "t", "e", "a", "d", "o">>,
     <<"c", "r", "o", "m", "a", "d", "o">>,
     <<"t", "r", "a", "n", "s", "p", "a", "r", "e", "n", "t", "e">>,
     <<"n", "a", "t", "u", "r", "a", "l">>,
     <<"c", "e", "r", "e", "j", "e", "i", "r", "a">>,
     <<"t", "a", "b", "a", "c", "o">>,
     <<"n", "o", "g", "u", "e", "i", "r", "a">>,
     <<"m", "o", "g", "n", "o">>,
     <<"c", "a", "r", "v", "a", "l", "h", "o">>,
     <<"i", "m", "b", "u", "i", "a">>,
     <<"p", "i", "n", "u", "s">>,
     <<"j", "e", "q", "u", "i", "t", "i", "b", "á">>,
     <<"j", "a", "t", "o", "b", "á">>,
     <<"c", "e", "d", "r", "o">>,
     <<"c", "a", "f", "é">>,
     <<"g", "r", "a", "f", "i", "t", "e">>,
     <<"c", "h", "u", "m", "b", "o">>,
     <<"f", "u", "m", "ê">>,
     <<"c", "a", "r", "a", "m", "e", "l", "o">>,
     <<"n", "u", "d", "e">> >>

CATEGORY_INDICATORS ==
  << [keyword |-> <<"c", "a", "d", "e", "i", "r", "a">>, category |-> <<"C", "a", "d", "e", "i", "r", "a">>],
     [keyword |-> <<"p", "o", "l", "t", "r", "o", "n", "a">>, category |-> <<"P", "o", "l", "t", "r", "o", "n", "a">>],
     [keyword |-> <<"s", "o", "f", "á">>, category |-> <<"S", "o", "f", "á">>],
     [keyword |-> <<"s", "o", "f", "a">>, category |-> <<"S", "o", "f", "á">>],
     [keyword |-> <<"m", "e", "s", "a">>, category |-> <<"M", "e", "s", "a">>],
     [keyword |-> <<"b", "a", "n", "q", "u", "e", "t", "a">>, category |-> <<"B", "a", "n", "q", "u", "e", "t", "a">>],
     [keyword |-> <<"b", "a", "n", "c", "o">>, category |-> <<"B", "a", "n", "q", "u", "e", "t", "a">>],
     [keyword |-> <<"r", "a", "c", "k">>, category |-> <<"R", "a", "c", "k">>],
     [keyword |-> <<"p", "a", "i", "n", "e", "l">>, category |-> <<"P", "a", "i", "n", "e", "l">>],
     [keyword |-> <<"e", "s", "t", "a", "n", "t", "e">>, category |-> <<"E", "s", "t", "a", "n", "t", "e">>],
     [keyword |-> <<"g", "u", "a", "r", "d", "a", "-", "r", "o", "u", "p", "a">>, category |-> <<"G", "u", "a", "r", "d", "a", "-", "r", "o", "u", "p", "a">>],
     [keyword |-> <<"a", "r", "m", "á", "r", "i", "o">>, category |-> <<"A", "r", "m", "á", "r", "i", "o">>],
     [keyword |-> <<"a", "r", "m", "a", "r", "i", "o">>, category |-> <<"A", "r", "m", "á", "r", "i", "o">>],
     [keyword |-> <<"b", "u", "f", "f", "e", "t">>, category |-> <<"B", "u", "f", "f", "e", "t">>],
     [keyword |-> <<"a", "p", "a", "r", "a", "d", "o", "r">>, category |-> <<"A", "p", "a", "r", "a", "d", "o", "r">>],
     [keyword |-> <<"c", "ô", "m", "o", "d", "a">>, category |-> <<"C", "ô", "m", "o", "d", "a">>],
     [keyword |-> <<"c", "o", "m", "o", "d", "a">>, category |-> <<"C", "ô", "m", "o", "d", "a">>],
     [keyword |-> <<"e", "s", "c", "r", "i", "v", "a", "n", "i", "n", "h", "a">>, category |-> <<"E", "s", "c", "r", "i", "v", "a", "n", "i", "n", "h", "a">>],
     [keyword |-> <<"c", "r", "i", "a", "d", "o", "-", "m", "u", "d", "o">>, category |-> <<"C", "r", "i", "a", "d", "o", "-", "m", "u", "d", "o">>],
     [keyword |-> <<"c", "a", "b", "e", "c", "e", "i", "r", "a">>, category |-> <<"C", "a", "b", "e", "c", "e", "i", "r", "a">>],
     [keyword |-> <<"c", "a", "m", "a">>, category |-> <<"C", "a", "m", "a">>] >>

----------------------------------------------------------------------------
(* Field classifiers of paddle_ocr_extractor.py                            *)

\* re: [\d.,]
NumClass == DigitClass \cup {".", ","}

IsNumChar(c) == c \in NumClass

\* re: [A-Z0-9\-\.]
IsCodeChar(c) == IsAsciiUpper(c) \/ IsDigit(c) \/ c = "-" \/ c = "."

\* re: [A-Z0-9\-\.] under re.IGNORECASE
IsCodeCharIgnoreCase(c) == IsCodeChar(c) \/ IsAsciiLower(c)

\* re: \d+\.\d+\.\d+\.\d+ matched at position i: the position of the last
\* character of the match, 0 when there is no match at i
DottedCodeEnd(t, i) ==
  LET e1 == RunEnd(t, i, DigitClass)
      e2 == RunEnd(t, e1 + 2, DigitClass)
      e3 == RunEnd(t, e2 + 2, DigitClass)
      e4 == RunEnd(t, e3 + 2, DigitClass)
  IN  IF /\ e1 >= i /\ e1 < Len(t) /\ t[e1 + 1] = "."
         /\ e2 >= e1 + 2 /\ e2 < Len(t) /\ t[e2 + 1] = "."
         /\ e3 >= e2 + 2 /\ e3 < Len(t) /\ t[e3 + 1] = "."
         /\ e4 >= e3 + 2
      THEN e4 ELSE 0

\* re.search(r'\d+\.\d+\.\d+\.\d+', t).group(0), << >> when there is no match
DottedCodeMatch(t) ==
  LET starts == {i \in 1..Len(t) : DottedCodeEnd(t, i) > 0}
  IN  IF starts = {} THEN << >>
      ELSE LET i == CHOOSE i \in starts : \A j \in starts : i <= j
           IN  SubSeq(t, i, DottedCodeEnd(t, i))

\* the value is_price computes from the run of [\d.,] it matched
PriceValue(run) == ParseFloat(ReplaceChar(RemoveChar(run, "."), ",", "."))

\* is_price(text): ok and the value in cents (is_price returns None for the
\* value when ok is False; cents is 0 then)
is_price(text) ==
  LET clean_text == RemoveChar(Strip(text), " ")
      rs == {i \in 1..Len(clean_text) :
               /\ i + 2 <= Len(clean_text)
               /\ clean_text[i] = "R" /\ clean_text[i + 1] = "$"
               /\ IsNumChar(clean_text[i + 2])}
      r  == CHOOSE i \in rs : \A j \in rs : i <= j
      price_value == PriceValue(SubSeq(clean_text, r + 2,
                                       RunEnd(clean_text, r + 2, NumClass)))
      ns == {i \in 1..Len(clean_text) : IsNumChar(clean_text[i])}
      n  == CHOOSE i \in ns : \A j \in ns : i <= j
      value == PriceValue(SubSeq(clean_text, n, RunEnd(clean_text, n, NumClass)))
  IN  IF rs # {} /\ price_value.ok
      THEN [ok |-> TRUE, cents |-> TimesHundred(price_value)]
      ELSE IF /\ ns # {} /\ value.ok
              /\ value.ip >= 1
              /\ \/ value.ip < 100000
                 \/ value.ip = 100000 /\ \A k \in 1..Len(value.fr) : value.fr[k] = "0"
      THEN [ok |-> TRUE, cents |-> TimesHundred(value)]
      ELSE [ok |-> FALSE, cents |-> 0]

\* f"R$ {price_cents / 100:.2f}".replace('.', ',')
RenderPrice(price_cents) ==
  << "R", "$", " " >> \o IntToStr(price_cents \div 100) \o << "," >>
  \o << DigitChars[((price_cents % 100) \div 10) + 1],
        DigitChars[(price_cents % 10) + 1] >>

\* is_product_code(text)
is_product_code(text) ==
  \/ DottedCodeMatch(text) # << >>
  \/ Len(text) >= 4 /\ \A i \in 1..Len(text) : IsCodeChar(text[i])
  \/ \E i \in 1..Len(text) :
       /\ i + 3 <= Len(text)
       /\ Lower(SubSeq(text, i, i + 2)) \in
            { << "r", "e", "f" >>, << "c", "o", "d" >>, << "s", "k", "u" >> }
       /\ text[i + 3] \in {":", "."}
       /\ LET p == RunEnd(text, i + 4, SpaceClass) + 1
          IN  p <= Len(text) /\ IsCodeCharIgnoreCase(text[p])

\* extract_colors(text)
extract_colors(text) ==
  LET text_lower == Lower(text)
      hit == SelectSeq(COLOR_LIST, LAMBDA color : Contains(text_lower, color))
  IN  [i \in 1..Len(hit) |-> Capitalize(hit[i])]

\* identify_category(text): the category of the first keyword found, << >>
\* for None
identify_category(text) ==
  LET text_lower == Lower(text)
      hit == SelectSeq(CATEGORY_INDICATORS,
                       LAMBDA e : Contains(text_lower, e.keyword))
  IN  IF hit = << >> THEN << >> ELSE hit[1].category

----------------------------------------------------------------------------
(* Grouping, anchor selection and record assembly of                       *)
(* paddle_ocr_extractor.py.  A block is the dictionary run_paddle_ocr      *)
(* builds: [id, text, center, area] with center = << x, y >>.              *)

CenterX(block) == block.center[1]

CenterY(block) == block.center[2]

RECURSIVE SortKeyed(_)
\* a stable ascending sort of << key, value >> pairs on the key
SortKeyed(pairs) ==
  IF pairs = << >> THEN << >>
  ELSE LET rest == SortKeyed(SubSeq(pairs, 1, Len(pairs) - 1))
           p    == pairs[Len(pairs)]
           n    == Cardinality({i \in 1..Len(rest) : rest[i][1] <= p[1]})
       IN  SubSeq(rest, 1, n) \o << p >> \o SubSeq(rest, n + 1, Len(rest))

Values(pairs) == [i \in 1..Len(pairs) |-> pairs[i][2]]

\* sorted(blocks, key=lambda x: x['center'][1]): stable, ascending y
SortByY(blocks) ==
  Values(SortKeyed([i \in 1..Len(blocks) |-> << CenterY(blocks[i]), blocks[i] >>]))

\* sorted(blocks, key=lambda x: x['center'][0]): stable, ascending x
SortByX(blocks) ==
  Values(SortKeyed([i \in 1..Len(blocks) |-> << CenterX(blocks[i]), blocks[i] >>]))

\* sorted(blocks, key=lambda x: x['area'], reverse=True): stable, descending
SortByAreaDesc(blocks) ==
  Values(SortKeyed([i \in 1..Len(blocks) |-> << -blocks[i].area, blocks[i] >>]))

Max(a, b) == IF a >= b THEN a ELSE b

Abs(n) == IF n < 0 THEN -n ELSE n

DEFAULT_MAX_DISTANCE == 100

\* mutant: the loop never starts a new group
GroupFold_OneGroup(sorted_blocks, i, groups, current_group, max_distance) ==
  << sorted_blocks >>

RECURSIVE GroupFold(_, _, _, _, _)
\* the loop of group_text_blocks over sorted_blocks[i..]
GroupFold(sorted_blocks, i, groups, current_group, max_distance) ==
  IF i > Len(sorted_blocks) THEN Append(groups, current_group)
  ELSE LET current_block == sorted_blocks[i]
           prev_block    == current_group[Len(current_group)]
       IN  IF Abs(CenterY(current_block) - CenterY(prev_block)) < max_distance
           THEN GroupFold(sorted_blocks, i + 1, groups,
                          Append(current_group, current_block), max_distance)
           ELSE GroupFold(sorted_blocks, i + 1, Append(groups, current_group),
                          << current_block >>, max_distance)

\* mutant: the groups are not sorted by x
group_text_blocks_Unsorted(ocr_results, max_distance) ==
  IF ocr_results = << >> THEN << >>
  ELSE LET sorted_blocks == SortByY(ocr_results)
       IN  GroupFold(sorted_blocks, 2, << >>, << sorted_blocks[1] >>, max_distance)

\* group_text_blocks(ocr_results, max_distance)
group_text_blocks(ocr_results, max_distance) ==
  IF ocr_results = << >> THEN << >>
  ELSE LET sorted_blocks == SortByY(ocr_results)
           groups == GroupFold(sorted_blocks, 2, << >>, << sorted_blocks[1] >>,
                               max_distance)
       IN  [g \in 1..Len(groups) |-> SortByX(groups[g])]

\* the dictionary a new product starts as
NewProduct(nome, categoria) ==
  [nome |-> nome, descricao |-> << >>, codigo_comercial |-> << >>,
   cores |-> << >>, preco |-> << >>, pagina |-> 1, categoria |-> categoria]

InSeq(e, seq) == \E i \in 1..Len(seq) : seq[i] = e

RECURSIVE AppendNew(_, _)
\* for v in values: if v not in list: list.append(v)
AppendNew(list, values) ==
  IF values = << >> THEN list
  ELSE AppendNew(IF InSeq(values[1], list) THEN list ELSE Append(list, values[1]),
                 Tail(values))

\* descricao += " " + text, or descricao = text when it is empty
AddDescription(descricao, text) ==
  IF descricao # << >> THEN descricao \o << " " >> \o text ELSE text

\* mutant: the title block is not skipped
FoldBlock_TitleNotSkipped(product, block) ==
  LET text   == Strip(block.text)
      price  == is_price(text)
      colors == extract_colors(text)
  IN  IF is_product_code(text) /\ ~InSeq(text, product.codigo_comercial)
      THEN [product EXCEPT !.codigo_comercial = Append(@, text)]
      ELSE IF price.ok /\ price.cents # 0 /\ product.preco = << >>
      THEN [product EXCEPT !.preco = RenderPrice(price.cents)]
      ELSE IF colors # << >>
      THEN [product EXCEPT !.cores = AppendNew(@, colors)]
      ELSE [product EXCEPT !.descricao = AddDescription(@, text)]

\* one iteration of the loop of extract_product_from_blocks
FoldBlock(product, block) ==
  LET text   == Strip(block.text)
      price  == is_price(text)
      colors == extract_colors(text)
  IN  IF text = product.nome THEN product
      ELSE IF is_product_code(text) /\ ~InSeq(text, product.codigo_comercial)
      THEN [product EXCEPT !.codigo_comercial = Append(@, text)]
      ELSE IF price.ok /\ price.cents # 0 /\ product.preco = << >>
      THEN [product EXCEPT !.preco = RenderPrice(price.cents)]
      ELSE IF colors # << >>
      THEN [product EXCEPT !.cores = AppendNew(@, colors)]
      ELSE [product EXCEPT !.descricao = AddDescription(@, text)]

RECURSIVE FoldBlocks(_, _)
FoldBlocks(product, blocks) ==
  IF blocks = << >> THEN product
  ELSE FoldBlocks(FoldBlock(product, blocks[1]), Tail(blocks))

\* extract_product_from_blocks(blocks, title_text)
extract_product_from_blocks(blocks, title_text) ==
  FoldBlocks(NewProduct(title_text, identify_category(title_text)),
             SortByY(blocks))

\* for a line: " ".join(block['text'] for block in line)
LineText(line) == Join([k \in 1..Len(line) |-> line[k].text], << " " >>)

\* the test of extract_products_by_lines for a line that starts a product
StartsProductLine(line_text) ==
  \/ identify_category(line_text) # << >>
  \/ Len(line_text) > 3 /\ IsUpperChar(line_text[1])

\* mutant: a line folded into the current product renames it
FoldLine_Renames(current_product, line_text) ==
  [current_product EXCEPT !.nome = line_text]

\* the branch of extract_products_by_lines that folds a line into the
\* current product
FoldLine(current_product, line_text) ==
  LET price  == is_price(line_text)
      colors == extract_colors(line_text)
      p1 == IF /\ is_product_code(line_text)
               /\ ~InSeq(line_text, current_product.codigo_comercial)
            THEN [current_product EXCEPT !.codigo_comercial = Append(@, line_text)]
            ELSE current_product
      p2 == IF price.ok /\ price.cents # 0 /\ p1.preco = << >>
            THEN [p1 EXCEPT !.preco = RenderPrice(price.cents)]
            ELSE p1
      p3 == [p2 EXCEPT !.cores = AppendNew(@, colors)]
  IN  IF ~price.ok /\ ~is_product_code(line_text) /\ colors = << >>
      THEN [p3 EXCEPT !.descricao = AddDescription(@, line_text)]
      ELSE p3

\* mutant: every line starts a product
LineStep_AlwaysStart(st, line) ==
  [products |->
     IF st.current_product # << >> /\ st.current_product[1].nome # << >>
     THEN Append(st.products, st.current_product[1])
     ELSE st.products,
   current_product |->
     << NewProduct(LineText(line), identify_category(LineText(line))) >>]

\* one iteration of the loop of extract_products_by_lines; current_product
\* is << >> for None and << product >> otherwise
LineStep(st, line) ==
  LET line_text == LineText(line)
  IN  IF StartsProductLine(line_text)
      THEN [products |->
              IF st.current_product # << >> /\ st.current_product[1].nome # << >>
              THEN Append(st.products, st.current_product[1])
              ELSE st.products,
            current_product |->
              << NewProduct(line_text, identify_category(line_text)) >>]
      ELSE IF st.current_product # << >>
      THEN [st EXCEPT !.current_product = << FoldLine(@[1], line_text) >>]
      ELSE st

\* mutant: the product in progress is not added after the loop
FlushProduct_Dropped(st) == st.products

\* the statement after the loop: the last product is added
FlushProduct(st) ==
  IF st.current_product # << >> /\ st.current_product[1].nome # << >>
  THEN Append(st.products, st.current_product[1])
  ELSE st.products

RECURSIVE LinesFold(_, _)
LinesFold(st, line_groups) ==
  IF line_groups = << >> THEN st
  ELSE LinesFold(LineStep(st, line_groups[1]), Tail(line_groups))

\* extract_products_by_lines(ocr_results)
extract_products_by_lines(ocr_results) ==
  FlushProduct(LinesFold([products |-> << >>, current_product |-> << >>],
                         group_text_blocks(ocr_results, DEFAULT_MAX_DISTANCE)))

\* mutant: the length of the text is not tested
potential_titles_AnyLength(ocr_results) ==
  LET sorted_by_area   == SortByAreaDesc(ocr_results)
      title_candidates == SubSeq(sorted_by_area, 1,
                                 Max(1, Len(sorted_by_area) \div 5))
  IN  SelectSeq(ocr_results,
        LAMBDA block :
          \/ InSeq(block, title_candidates)
          \/ identify_category(Strip(block.text)) # << >>)

\* the blocks cluster_blocks_into_products takes as titles, in page order
potential_titles(ocr_results) ==
  LET sorted_by_area   == SortByAreaDesc(ocr_results)
      \* int(len(sorted_by_area) * 0.2)
      title_candidates == SubSeq(sorted_by_area, 1,
                                 Max(1, Len(sorted_by_area) \div 5))
  IN  SelectSeq(ocr_results,
        LAMBDA block :
          /\ InSeq(block, title_candidates)
             \/ identify_category(Strip(block.text)) # << >>
          /\ Len(Strip(block.text)) > 3)

\* mutant: the region of the first title starts at the top of the page
ProductBlocks_FromTop(ocr_results, titles, i) ==
  SelectSeq(ocr_results,
    LAMBDA block :
      /\ i > 1 => CenterY(titles[i]) <= CenterY(block)
      /\ i < Len(titles) => CenterY(block) < CenterY(titles[i + 1]))

\* the region of the i-th title: the blocks from its y up to the next title's
ProductBlocks(ocr_results, titles, i) ==
  SelectSeq(ocr_results,
    LAMBDA block :
      /\ CenterY(titles[i]) <= CenterY(block)
      /\ i < Len(titles) => CenterY(block) < CenterY(titles[i + 1]))

\* cluster_blocks_into_products(ocr_results)
cluster_blocks_into_products(ocr_results) ==
  LET titles == SortByY(potential_titles(ocr_results))
  IN  IF titles = << >> THEN extract_products_by_lines(ocr_results)
      ELSE [i \in 1..Len(titles) |->
              extract_product_from_blocks(ProductBlocks(ocr_results, titles, i),
                                          titles[i].text)]

----------------------------------------------------------------------------
(* The rule-based extractor of pdf_ocr_processor.py and of                 *)
(* uploads/temp_ocr/process_image.py (the two files define the same        *)
(* classifiers)                                                            *)

product_prefixes ==
  << <<"c", "a", "d", "e", "i", "r", "a">>,
     <<"m", "e", "s", "a">>,
     <<"p", "o", "l", "t", "r", "o", "n", "a">>,
     <<"s", "o", "f", "á">>,
     <<"s", "o", "f", "a">>,
     <<"b", "a", "n", "q", "u", "e", "t", "a">>,
     <<"a", "p", "o", "i", "o">>,
     <<"e", "s", "t", "a", "n", "t", "e">>,
     <<"a", "r", "m", "á", "r", "i", "o">>,
     <<"a", "r", "m", "a", "r", "i", "o">>,
     <<"r", "a", "c", "k">>,
     <<"b", "a", "n", "c", "a", "d", "a">> >>

is_color_colors ==
  << <<"p", "r", "e", "t", "o">>,
     <<"b", "r", "a", "n", "c", "o">>,
     <<"c", "i", "n", "z", "a">>,
     <<"a", "z", "u", "l">>,
     <<"v", "e", "r", "m", "e", "l", "h", "o">>,
     <<"v", "e", "r", "d", "e">>,
     <<"a", "m", "a", "r", "e", "l", "o">>,
     <<"l", "a", "r", "a", "n", "j", "a">>,
     <<"r", "o", "x", "o">>,
     <<"r", "o", "s", "a">>,
     <<"m", "a", "r", "r", "o", "m">>,
     <<"b", "e", "g", "e">>,
     <<"p", "r", "a", "t", "a">>,
     <<"d", "o", "u", "r", "a", "d", "o">>,
     <<"c", "r", "o", "m", "a", "d", "o">>,
     <<"n", "a", "t", "u", "r", "a", "l">>,
     <<"m", "a", "d", "e", "i", "r", "a">> >>

known_colors ==
  << <<"p", "r", "e", "t", "o">>,
     <<"b", "r", "a", "n", "c", "o">>,
     <<"c", "i", "n", "z", "a">>,
     <<"a", "z", "u", "l">>,
     <<"v", "e", "r", "m", "e", "l", "h", "o">>,
     <<"v", "e", "r", "d", "e">>,
     <<"a", "m", "a", "r", "e", "l", "o">>,
     <<"l", "a", "r", "a", "n", "j", "a">>,
     <<"r", "o", "x", "o">>,
     <<"r", "o", "s", "a">>,
     <<"m", "a", "r", "r", "o", "m">>,
     <<"b", "e", "g", "e">> >>

\* is_product_name(text)
is_product_name(text) ==
  \/ LET text_lower == Lower(text)
     IN  \E k \in 1..Len(product_prefixes) : StartsWith(text_lower, product_prefixes[k])
  \/ LET words == Split(text)
     IN  /\ Len(words) >= 2
         /\ IsUpperChar(words[1][1])
         /\ IsUpperChar(words[2][1])

\* re.search(r'R\$\s*\d+[.,]?\d*', text).group(0), << >> when there is no
\* match
PriceMatch(text) ==
  LET DigitsAt(i) == RunEnd(text, i + 2, SpaceClass) + 1
      starts == {i \in 1..Len(text) :
                   /\ i + 1 <= Len(text)
                   /\ text[i] = "R" /\ text[i + 1] = "$"
                   /\ DigitsAt(i) <= Len(text)
                   /\ IsDigit(text[DigitsAt(i)])}
      i  == CHOOSE a \in starts : \A b \in starts : a <= b
      e1 == RunEnd(text, DigitsAt(i), DigitClass)
      e2 == IF e1 < Len(text) /\ text[e1 + 1] \in {".", ","}
            THEN RunEnd(text, e1 + 2, DigitClass)
            ELSE e1
  IN  IF starts = {} THEN << >> ELSE SubSeq(text, i, e2)

\* is_price(text) of pdf_ocr_processor.py and process_image.py
ocr_is_price(text) == PriceMatch(text) # << >>

\* re: [A-Z0-9]
UpperOrDigitClass == {UpperChars[k] : k \in 1..26} \cup DigitClass

\* is_product_code(text) of pdf_ocr_processor.py and process_image.py
ocr_is_product_code(text) ==
  \/ DottedCodeMatch(text) # << >>
  \/ \E i \in 1..Len(text) : RunEnd(text, i, UpperOrDigitClass) >= i + 3

\* is_color(text)
is_color(text) ==
  LET text_lower == Lower(text)
  IN  \E k \in 1..Len(is_color_colors) : Contains(text_lower, is_color_colors[k])

RECURSIVE AddKnownColors(_, _, _)
\* for color in [...]: if color in text_lower and color not in cores:
\*     cores.append(color.capitalize())
AddKnownColors(cores, text_lower, k) ==
  IF k > Len(known_colors) THEN cores
  ELSE AddKnownColors(
         IF Contains(text_lower, known_colors[k]) /\ ~InSeq(known_colors[k], cores)
         THEN Append(cores, Capitalize(known_colors[k]))
         ELSE cores,
         text_lower, k + 1)

\* the dictionary a new product starts as in the rule-based extractor
NewOcrProduct(nome, imagem, page) ==
  [nome |-> nome, descricao |-> << >>, codigo_comercial |-> << >>,
   cores |-> << >>, preco |-> << >>, imagem |-> imagem, page |-> page]

\* the branch of extract_products_from_ocr_results that folds a group into
\* the current product
FoldGroup(current_product, group_text) ==
  IF ocr_is_price(group_text)
  THEN [current_product EXCEPT !.preco = PriceMatch(group_text)]
  ELSE IF ocr_is_product_code(group_text)
  THEN IF /\ DottedCodeMatch(group_text) # << >>
          /\ ~InSeq(DottedCodeMatch(group_text), current_product.codigo_comercial)
       THEN [current_product EXCEPT
               !.codigo_comercial = Append(@, DottedCodeMatch(group_text))]
       ELSE current_product
  ELSE IF is_color(group_text)
  THEN [current_product EXCEPT !.cores = AddKnownColors(@, Lower(group_text), 1)]
  ELSE IF /\ ~StartsWith(group_text, << "C", "ó", "d", "i", "g", "o" >>)
          /\ ~StartsWith(group_text, << "C", "o", "r" >>)
  THEN [current_product EXCEPT !.descricao = AddDescription(@, group_text)]
  ELSE current_product

\* one iteration of the loop over the vertical groups; imagem and page are
\* what a product started by this group gets
GroupStep(st, group_text, imagem, page) ==
  IF is_product_name(group_text)
  THEN [products |->
          IF st.current_product # << >>
          THEN Append(st.products, st.current_product[1])
          ELSE st.products,
        current_product |-> << NewOcrProduct(group_text, imagem, page) >>]
  ELSE IF st.current_product # << >>
  THEN [st EXCEPT !.current_product = << FoldGroup(@[1], group_text) >>]
  ELSE st

\* group_key = int(center_y / 20)
GROUP_HEIGHT == 20

GroupKey(result) == CenterY(result) \div GROUP_HEIGHT

\* the texts of the vertical groups of a page, in ascending group_key; the
\* members of a group are joined in ascending x
GroupTexts(page_results) ==
  LET kept == SelectSeq(page_results, LAMBDA result : Strip(result.text) # << >>)
      keys == {GroupKey(kept[k]) : k \in 1..Len(kept)}
      RECURSIVE Ordered(_)
      Ordered(ks) ==
        IF ks = {} THEN << >>
        ELSE LET key == CHOOSE a \in ks : \A b \in ks : a <= b
                 group == SelectSeq(kept, LAMBDA result : GroupKey(result) = key)
             IN  << LineText(SortByX(group)) >> \o Ordered(ks \ {key})
  IN  Ordered(keys)


\* An image file is named by its path << "path", n >>; the data URI built
\* from the bytes of the file is << "data:image;base64", n >>, and << >> is
\* the empty string
ImagePath(n) == << "path", n >>

DataUri(image_path) == << "data:image;base64", image_path[2] >>

RECURSIVE GroupsFold(_, _, _, _)
\* the loop over the sorted groups of one page
GroupsFold(st, group_texts, imagem, page) ==
  IF group_texts = << >> THEN st
  ELSE GroupsFold(GroupStep(st, group_texts[1], imagem, page),
                  Tail(group_texts), imagem, page)

\* the statement after the loops: the last product is added
FlushOcrProduct(st) ==
  IF st.current_product # << >> THEN Append(st.products, st.current_product[1])
  ELSE st.products

\* the post-processing of extract_products_from_ocr_results of
\* pdf_ocr_processor.py: product["imagem"] becomes the data URI of the file
\* it names, "" when the file cannot be read
PostProcess(list, ok) ==
  [k \in 1..Len(list) |->
     [list[k] EXCEPT !.imagem = IF ok THEN DataUri(@) ELSE << >>]]

\* re.search(r'R\$\s*(\d+[.,]?\d*)', text).group(1), << >> when there is no
\* match
PriceMatchNumber(text) ==
  LET m == PriceMatch(text)
  IN  IF m = << >> THEN << >>
      ELSE SubSeq(m, RunEnd(m, 3, SpaceClass) + 1, Len(m))

\* re: \w
IsWordChar(c) == IsDigit(c) \/ IsUpperChar(c) \/ IsLowerChar(c) \/ c = "_"

\* re: \b\d+\.\d+\.\d+\.\d+\b matched at position i: the position of the
\* last character of the match, 0 when there is no match at i
BoundedCodeEnd(t, i) ==
  LET e == DottedCodeEnd(t, i)
  IN  IF /\ e > 0
         /\ (i = 1 \/ ~IsWordChar(t[i - 1]))
         /\ (e = Len(t) \/ ~IsWordChar(t[e + 1]))
      THEN e ELSE 0

RECURSIVE FindAllCodes(_, _)
\* re.findall(r'\b\d+\.\d+\.\d+\.\d+\b', t), scanning from position i
FindAllCodes(t, i) ==
  IF i > Len(t) THEN << >>
  ELSE IF BoundedCodeEnd(t, i) > 0
  THEN << SubSeq(t, i, BoundedCodeEnd(t, i)) >> \o FindAllCodes(t, BoundedCodeEnd(t, i) + 1)
  ELSE FindAllCodes(t, i + 1)

DESCRIPTION_LIMIT == 200

\* the product process_image.py makes of the whole text of the page when no
\* group started a product
FallbackProduct(ocr_results) ==
  LET kept == SelectSeq(ocr_results, LAMBDA r : Strip(r.text) # << >>)
      all_text == LineText(kept)
      text_lower == Lower(all_text)
      hit == SelectSeq(known_colors, LAMBDA color : Contains(text_lower, color))
  IN  IF all_text = << >> THEN << >>
      ELSE << [nome |-> << "P", "r", "o", "d", "u", "t", "o", " ", "e", "m", " ", "I", "m", "a", "g", "e", "m" >>,
               descricao |-> IF Len(all_text) > DESCRIPTION_LIMIT
                             THEN SubSeq(all_text, 1, DESCRIPTION_LIMIT)
                             ELSE all_text,
               codigo_comercial |-> FindAllCodes(all_text, 1),
               cores |-> [k \in 1..Len(hit) |-> Capitalize(hit[k])],
               preco |-> IF PriceMatch(all_text) # << >>
                         THEN << "R", "$" >> \o PriceMatchNumber(all_text)
                         ELSE << >>,
               imagem |-> << >>,
               page |-> 1] >>

\* mutant: the image is given to the first product only
AssignImage_FirstOnly(products, image_path, image_ok) ==
  IF image_ok
  THEN [k \in 1..Len(products) |->
          IF k = 1 THEN [products[k] EXCEPT !.imagem = DataUri(image_path)]
          ELSE products[k]]
  ELSE products

\* "Assign the image to all products"; the products stay as they are when
\* the image file cannot be read
AssignImage(products, image_path, image_ok) ==
  IF image_ok
  THEN [k \in 1..Len(products) |-> [products[k] EXCEPT !.imagem = DataUri(image_path)]]
  ELSE products

\* extract_products_from_ocr_results(ocr_results) of process_image.py;
\* image_path is the global the script sets from its arguments
image_extract_products_from_ocr_results(ocr_results, image_path, image_ok) ==
  LET products == FlushOcrProduct(
                    GroupsFold([products |-> << >>, current_product |-> << >>],
                               GroupTexts(ocr_results), << >>, 1))
  IN  AssignImage(IF products = << >> /\ ocr_results # << >>
                  THEN FallbackProduct(ocr_results)
                  ELSE products,
                  image_path, image_ok)

\* "Adicionar número da página e URL da imagem": the loop of
\* process_image_for_products over the products of the page
AddPageAndImage(products, image_path, page_number, image_ok) ==
  [k \in 1..Len(products) |->
     [nome |-> products[k].nome,
      descricao |-> products[k].descricao,
      codigo_comercial |-> products[k].codigo_comercial,
      cores |-> products[k].cores,
      preco |-> products[k].preco,
      pagina |-> page_number,
      categoria |-> products[k].categoria,
      imagem |-> IF image_ok THEN DataUri(image_path) ELSE << >>]]

\* mutant: the result with more records is taken
PageProducts_Greater(ocr_results) ==
  IF Len(extract_products_by_lines(ocr_results))
       > Len(cluster_blocks_into_products(ocr_results))
  THEN extract_products_by_lines(ocr_results)
  ELSE cluster_blocks_into_products(ocr_results)

\* the products process_image_for_products takes: those of
\* cluster_blocks_into_products, and those of extract_products_by_lines when
\* there are none
PageProducts(ocr_results) ==
  IF cluster_blocks_into_products(ocr_results) # << >>
  THEN cluster_blocks_into_products(ocr_results)
  ELSE extract_products_by_lines(ocr_results)

\* process_image_for_products(image_path, page_number), on the blocks
\* run_paddle_ocr returns for the image
process_image_for_products(ocr_results, image_path, page_number, image_ok) ==
  IF ocr_results = << >> THEN << >>
  ELSE AddPageAndImage(PageProducts(ocr_results), image_path, page_number, image_ok)

----------------------------------------------------------------------------
(* Spreadsheet extraction of python-scripts/excel_fixed_columns.py.        *)
(* A cell value is None, a string or a number; a number is kept as the     *)
(* text str() gives for it.                                                *)

PyNone == [kind |-> "None", s |-> << >>]

PyStr(s) == [kind |-> "str", s |-> s]

PyNum(s) == [kind |-> "num", s |-> s]

\* bool(value)
Truthy(value) ==
  CASE value.kind = "None" -> FALSE
    [] value.kind = "str"  -> value.s # << >>
    [] value.kind = "num"  ->
         \E i \in 1..Len(value.s) : IsDigit(value.s[i]) /\ value.s[i] # "0"

\* str(value)
PyToStr(value) ==
  IF value.kind = "None" THEN << "N", "o", "n", "e" >> ELSE value.s

\* value.strip() if value and isinstance(value, str) else value
StripValue(value) ==
  IF Truthy(value) /\ value.kind = "str" THEN PyStr(Strip(value.s)) ELSE value

\* value or ""
OrEmpty(value) == IF Truthy(value) THEN value ELSE PyStr(<< >>)

RECURSIVE RemoveSub(_, _)
\* t.replace(s, "") for a non-empty s
RemoveSub(t, s) ==
  IF Len(t) < Len(s) THEN t
  ELSE IF SubSeq(t, 1, Len(s)) = s THEN RemoveSub(SubSeq(t, Len(s) + 1, Len(t)), s)
  ELSE << t[1] >> \o RemoveSub(Tail(t), s)

\* float(s) for a text of an optional sign, digits and ".": ok is FALSE
\* where Python raises ValueError; the value is the sign, the digits before
\* the point and the digits after it
PyFloat(s) ==
  LET signed == s # << >> /\ s[1] \in {"+", "-"}
      body   == IF signed THEN Tail(s) ELSE s
      dots   == {i \in 1..Len(body) : body[i] = "."}
      d      == IF dots = {} THEN Len(body) + 1 ELSE CHOOSE i \in dots : TRUE
  IN  [ok |-> /\ Cardinality(dots) <= 1
              /\ \E i \in 1..Len(body) : IsDigit(body[i])
              /\ \A i \in 1..Len(body) : IsDigit(body[i]) \/ body[i] = ".",
       neg |-> signed /\ s[1] = "-",
       ip |-> SubSeq(body, 1, d - 1),
       fr |-> SubSeq(body, d + 1, Len(body))]

\* the digits without leading zeros, "0" for zero
StripZeros(ds) ==
  LET nz == {i \in 1..Len(ds) : ds[i] # "0"}
  IN  IF nz = {} THEN << "0" >>
      ELSE SubSeq(ds, CHOOSE i \in nz : \A j \in nz : i <= j, Len(ds))

RECURSIVE IncDigits(_)
\* the digits of the number plus one
IncDigits(ds) ==
  IF ds = << >> THEN << "1" >>
  ELSE IF ds[Len(ds)] = "9" THEN IncDigits(SubSeq(ds, 1, Len(ds) - 1)) \o << "0" >>
  ELSE SubSeq(ds, 1, Len(ds) - 1) \o << DigitChars[DigitVal(ds[Len(ds)]) + 2] >>

\* the digits of the value in hundredths, rounded as the format .2f rounds:
\* to the nearest, a tie to the even digit (a tie of the decimal text is a
\* tie of the float when the float holds the text exactly)
Hundredths(f) ==
  LET fr2  == SubSeq(f.fr \o << "0", "0" >>, 1, 2)
      rest == SubSeq(f.fr, 3, Len(f.fr))
      tail_zero == \A i \in 2..Len(rest) : rest[i] = "0"
      up   == /\ rest # << >>
              /\ \/ DigitVal(rest[1]) > 5
                 \/ DigitVal(rest[1]) = 5 /\ ~tail_zero
                 \/ DigitVal(rest[1]) = 5 /\ tail_zero /\ DigitVal(fr2[2]) % 2 = 1
      all  == f.ip \o fr2
  IN  StripZeros(IF up THEN IncDigits(all) ELSE all)

RECURSIVE Group3(_)
\* the digits in groups of three from the right, separated by "."
Group3(ds) ==
  IF Len(ds) <= 3 THEN ds
  ELSE Group3(SubSeq(ds, 1, Len(ds) - 3)) \o << "." >> \o SubSeq(ds, Len(ds) - 2, Len(ds))

\* f"R$ {price_float:,.2f}".replace(",", "X").replace(".", ",").replace("X", ".")
FormatReais(f) ==
  LET h  == Hundredths(f)
      hs == IF Len(h) < 3 THEN SubSeq(<< "0", "0" >>, 1, 3 - Len(h)) \o h ELSE h
  IN  << "R", "$", " " >> \o (IF f.neg THEN << "-" >> ELSE << >>)
      \o Group3(SubSeq(hs, 1, Len(hs) - 2)) \o << "," >>
      \o SubSeq(hs, Len(hs) - 1, Len(hs))

\* format_price(price_value)
format_price(price_value) ==
  LET price_str == PyToStr(price_value)
      stripped  == Strip(RemoveChar(RemoveSub(price_str, << "R", "$" >>), " "))
      cleaned_value ==
        IF InSeq(",", stripped) /\ InSeq(".", stripped)
        THEN ReplaceChar(RemoveChar(stripped, "."), ",", ".")
        ELSE ReplaceChar(stripped, ",", ".")
      price_float == PyFloat(cleaned_value)
      ns == {i \in 1..Len(cleaned_value) : IsNumChar(cleaned_value[i])}
      n  == CHOOSE i \in ns : \A j \in ns : i <= j
      \* re.findall(r'[\d.,]+', cleaned_value)[0].replace(",", ".")
      num_str == ReplaceChar(SubSeq(cleaned_value, n,
                                    RunEnd(cleaned_value, n, NumClass)), ",", ".")
      zero == [ok |-> TRUE, neg |-> FALSE, ip |-> << "0" >>, fr |-> << >>]
  IN  IF ~Truthy(price_value) THEN << "R", "$", " ", "0", ",", "0", "0" >>
      ELSE IF price_float.ok THEN FormatReais(price_float)
      ELSE IF ns = {} THEN FormatReais(zero)
      ELSE IF PyFloat(num_str).ok THEN FormatReais(PyFloat(num_str))
      ELSE << "R", "$", " " >> \o price_str

\* A sheet is [rows, images]: rows[r] is row r of the sheet, a record of the
\* values of its columns A, B, C, D, F, G and L; images are the pictures
\* embedded in the sheet.
max_row(sheet) == Len(sheet.rows)

\* mutant: a row with the code "UNKNOWN-CODE" is not skipped
SkipsRow_KeepsUnknownCode(nome, codigo) ==
  \/ ~Truthy(nome)
  \/ nome = PyStr(<< "_", "E", "M", "P", "T", "Y", "_" >>)
  \/ nome = PyStr(<< >>)
  \/ ~Truthy(codigo)
  \/ codigo = PyStr(<< "_", "E", "M", "P", "T", "Y", "_" >>)
  \/ codigo = PyStr(<< >>)

\* the test of extract_products_from_sheet for a row it skips
SkipsRow(nome, codigo) ==
  \/ ~Truthy(nome)
  \/ nome = PyStr(<< "_", "E", "M", "P", "T", "Y", "_" >>)
  \/ nome = PyStr(<< >>)
  \/ ~Truthy(codigo)
  \/ codigo = PyStr(<< "_", "E", "M", "P", "T", "Y", "_" >>)
  \/ codigo = PyStr(<< >>)
  \/ codigo = PyStr(<< "U", "N", "K", "N", "O", "W", "N", "-", "C", "O", "D", "E" >>)

\* the normalised nome and codigo of a row, as the skip test reads them
RowNome(row) == StripValue(row.A)

RowCodigo(row) ==
  IF Truthy(row.F) /\ row.F.kind # "str" THEN PyStr(PyToStr(row.F))
  ELSE StripValue(row.F)

\* the product extract_products_from_sheet creates for row row_idx
RowProduct(row, row_idx) ==
  LET nome   == RowNome(row)
      codigo == RowCodigo(row)
  IN  [nome |-> nome,
       local |-> OrEmpty(StripValue(row.B)),
       fornecedor |-> OrEmpty(StripValue(row.C)),
       codigo |-> Strip(PyToStr(codigo)),
       descricao |-> OrEmpty(StripValue(row.G)),
       preco |-> format_price(row.L),
       imagem |-> << >>,
       row |-> row_idx]

RECURSIVE RowsFrom(_, _)
\* the loop of extract_products_from_sheet from row row_idx on
RowsFrom(sheet, row_idx) ==
  IF row_idx > max_row(sheet) THEN << >>
  ELSE (IF SkipsRow(RowNome(sheet.rows[row_idx]), RowCodigo(sheet.rows[row_idx]))
        THEN << >>
        ELSE << RowProduct(sheet.rows[row_idx], row_idx) >>)
       \o RowsFrom(sheet, row_idx + 1)

\* extract_products_from_sheet(sheet)
extract_products_from_sheet(sheet) == RowsFrom(sheet, 2)

\* the value of column F of row r; openpyxl gives an empty cell for a row
\* below the last one
CellF(sheet, r) == IF r \in 1..max_row(sheet) THEN sheet.rows[r].F ELSE PyNone

\* codigo_cell and str(codigo_cell).strip()
HasCode(value) == Truthy(value) /\ Strip(PyToStr(value)) # << >>

CodeOf(value) == Strip(PyToStr(value))

Min(a, b) == IF a <= b THEN a ELSE b

\* the code extract_images_from_sheet gives the image image_idx of the
\* sheet, by its five strategies, and the row it then records for it;
\* raised is TRUE where sheet.cell(row=0, ...) raises ValueError
ImageCode(sheet, image, image_idx, timestamp) ==
  LET row  == image.row
      col  == image.col
      \* sheet.cell(row=row, ...) has created the row when it lay below the
      \* last one, and sheet.max_row counts it
      last == Max(max_row(sheet), row)
      near == {r \in Max(1, row - 3)..(Min(last, row + 3) - 1) :
                 HasCode(CellF(sheet, r))}
      cand == {r \in 2..max_row(sheet) :
                 /\ Truthy(sheet.rows[r].D) \/ Abs(r - row) < 2
                 /\ HasCode(CellF(sheet, r))}
      first(S) == CHOOSE r \in S : \A q \in S : r <= q
  IN  IF row > 0 /\ HasCode(CellF(sheet, row))
      THEN [raised |-> FALSE, codigo |-> CodeOf(CellF(sheet, row)), row |-> row]
      ELSE IF row > 0 /\ near # {}
      THEN [raised |-> FALSE, codigo |-> CodeOf(CellF(sheet, first(near))), row |-> row]
      ELSE IF col = 4 /\ row < 1
      THEN [raised |-> TRUE, codigo |-> << >>, row |-> row]
      ELSE IF cand # {}
      THEN [raised |-> FALSE, codigo |-> CodeOf(CellF(sheet, first(cand))),
            row |-> first(cand)]
      ELSE [raised |-> FALSE,
            codigo |-> << "i", "m", "a", "g", "e", "m", "_", "i", "d", "x" >>
                       \o IntToStr(image_idx) \o << "_", "r" >> \o IntToStr(row)
                       \o << "_", "c" >> \o IntToStr(col) \o << "_" >>
                       \o IntToStr(timestamp),
            row |-> row]

\* An embedded picture is [row, col, data, data_ok, tiny]: the row and
\* column of its anchor, its bytes, whether the bytes are found and are at
\* least 100, and whether the picture is narrower or lower than 20 pixels.
\* The image_info of a picture carries the fields the association reads:
\* codigo, base64, row and col.
RECURSIVE SheetImagesFrom(_, _, _)
\* the loop of extract_images_from_sheet over the pictures of the sheet
SheetImagesFrom(sheet, image_idx, timestamp) ==
  IF image_idx >= Len(sheet.images) THEN << >>
  ELSE LET image == sheet.images[image_idx + 1]
           code  == ImageCode(sheet, image, image_idx, timestamp)
       IN  (IF ~image.data_ok \/ code.raised \/ image.tiny THEN << >>
            ELSE << [codigo |-> code.codigo, base64 |-> << "base64", image.data >>,
                     row |-> code.row, col |-> image.col] >>)
           \o SheetImagesFrom(sheet, image_idx + 1, timestamp)

RECURSIVE MediaFiles(_)
\* the files under xl/media of the workbook: the pictures of its sheets
MediaFiles(wb) ==
  IF wb = << >> THEN << >>
  ELSE [k \in 1..Len(wb[1].images) |-> wb[1].images[k].data] \o MediaFiles(Tail(wb))

\* the second method of extract_images_from_sheet: one image per media file
\* of the workbook, named by its index and the time, with no row or col
ZipImages(wb, timestamp) ==
  LET files == MediaFiles(wb)
  IN  [k \in 1..Len(files) |->
         [codigo |-> << "i", "m", "g", "_" >> \o IntToStr(k - 1) \o << "_" >>
                     \o IntToStr(timestamp)
                     \o << "_", "i", "m", "a", "g", "e" >> \o IntToStr(k)
                     \o << "_", "p", "n", "g" >>,
          base64 |-> << "base64", files[k] >>]]

\* extract_images_from_sheet(sheet, output_dir) for a sheet of the workbook
extract_images_from_sheet(wb, sheet, timestamp) ==
  LET images == SheetImagesFrom(sheet, 0, timestamp)
  IN  IF Len(images) = 0 THEN ZipImages(wb, timestamp) ELSE images

\* product[key] = value
SetKey(product, key, value) ==
  [k \in DOMAIN product \cup {key} |-> IF k = key THEN value ELSE product[k]]

\* f"data:image/png;base64,{img['base64']}"
PngUri(img) == << "data:image/png;base64", img.base64[2] >>

\* images_by_code[codigo]: the last image of the list with the code
ImageByCode(images, codigo) ==
  images[CHOOSE i \in 1..Len(images) :
           /\ images[i].codigo = codigo
           /\ \A j \in (i + 1)..Len(images) : images[j].codigo # codigo]

HasImageCode(images, codigo) == \E i \in 1..Len(images) : images[i].codigo = codigo

\* the images entered in images_by_row, and the << row, col >> key of each
InRowIndex(img) == "row" \in DOMAIN img /\ img.row > 0

RowColKey(img) == << img.row, IF "col" \in DOMAIN img THEN img.col ELSE 0 >>

HasImageRow(images, key) ==
  \E i \in 1..Len(images) : InRowIndex(images[i]) /\ RowColKey(images[i]) = key

\* images_by_row[row_col_key]: the last image of the list with the key
ImageByRow(images, key) ==
  images[CHOOSE i \in 1..Len(images) :
           /\ InRowIndex(images[i]) /\ RowColKey(images[i]) = key
           /\ \A j \in (i + 1)..Len(images) :
                ~(InRowIndex(images[j]) /\ RowColKey(images[j]) = key)]

\* the product with the image and its image_id
WithImage(product, img) ==
  SetKey(SetKey(product, "imagem", PngUri(img)), "image_id", img.codigo)

\* mutant: the first pass does not look at used_images
ExactPass_ReusesImages(st, images, i) ==
  LET codigo == st.products[i].codigo
  IN  IF HasImageCode(images, codigo)
      THEN [products |-> [st.products EXCEPT
                            ![i] = WithImage(@, ImageByCode(images, codigo))],
            used_images |-> st.used_images \cup {codigo}]
      ELSE st

\* one iteration of the first pass: the exact association by code
ExactPass(st, images, i) ==
  LET codigo == st.products[i].codigo
  IN  IF HasImageCode(images, codigo) /\ codigo \notin st.used_images
      THEN [products |-> [st.products EXCEPT
                            ![i] = WithImage(@, ImageByCode(images, codigo))],
            used_images |-> st.used_images \cup {codigo}]
      ELSE st

\* one iteration of the second pass: the association by row and column
RowPass(st, images, i) ==
  LET product == st.products[i]
      key     == << product.row, IF "col" \in DOMAIN product THEN product.col ELSE 0 >>
  IN  IF "imagem" \in DOMAIN product THEN st
      ELSE IF /\ "row" \in DOMAIN product /\ product.row > 0
              /\ HasImageRow(images, key)
              /\ ImageByRow(images, key).codigo \notin st.used_images
      THEN [products |-> [st.products EXCEPT ![i] = WithImage(@, ImageByRow(images, key))],
            used_images |-> st.used_images \cup {ImageByRow(images, key).codigo}]
      ELSE st

\* one iteration of the third pass: the first unused code, in the order of
\* images_by_code, that contains the product's code or is contained in it
PartialPass(st, images, i) ==
  LET product == st.products[i]
      keys == {k \in 1..Len(images) :
                 /\ \A j \in 1..(k - 1) : images[j].codigo # images[k].codigo
                 /\ images[k].codigo \notin st.used_images
                 /\ \/ Contains(images[k].codigo, product.codigo)
                    \/ Contains(product.codigo, images[k].codigo)}
      k == CHOOSE a \in keys : \A b \in keys : a <= b
  IN  IF "imagem" \in DOMAIN product \/ keys = {} THEN st
      ELSE [products |-> [st.products EXCEPT
                            ![i] = WithImage(@, ImageByCode(images, images[k].codigo))],
            used_images |-> st.used_images \cup {images[k].codigo}]

RECURSIVE ExactPasses(_, _, _)
ExactPasses(st, images, i) ==
  IF i > Len(st.products) THEN st
  ELSE ExactPasses(ExactPass(st, images, i), images, i + 1)

RECURSIVE RowPasses(_, _, _)
RowPasses(st, images, i) ==
  IF i > Len(st.products) THEN st
  ELSE RowPasses(RowPass(st, images, i), images, i + 1)

RECURSIVE PartialPasses(_, _, _)
PartialPasses(st, images, i) ==
  IF i > Len(st.products) THEN st
  ELSE PartialPasses(PartialPass(st, images, i), images, i + 1)

\* associate_images_with_products(products, images): the products as the
\* call leaves them, and whether it raised (the last statement divides by
\* len(products))
associate_images_with_products(products, images) ==
  LET st == PartialPasses(
              RowPasses(
                ExactPasses([products |-> products, used_images |-> {}], images, 1),
                images, 1),
              images, 1)
  IN  [products |-> st.products, raised |-> Len(products) = 0]

\* wb.sheetnames also names the chart sheets of the workbook; a chart sheet
\* has no cells and no max_row
Chartsheet == [images |-> << >>]

\* extract_products_from_sheet reads sheet.max_row: it raises AttributeError
\* for a sheet that is not a worksheet
IsWorksheet(sheet) == "rows" \in DOMAIN sheet

\* mutant: the failure of a sheet is swallowed and not recorded
ProcessSheet_Unrecorded(result, wb, n, timestamp) ==
  IF ~IsWorksheet(wb[n]) THEN result
  ELSE LET all_products == result.products \o extract_products_from_sheet(wb[n])
           all_images   == result.images
                             \o extract_images_from_sheet(wb, wb[n], timestamp)
       IN  [products |-> associate_images_with_products(all_products,
                                                        all_images).products,
            images |-> all_images,
            errors |-> result.errors]

\* one iteration of the loop of extract_products_fixed_columns over the
\* sheets: the result after the sheet at position n of the workbook; a sheet
\* whose processing raised adds a message to the errors
ProcessSheet(result, wb, n, timestamp) ==
  IF ~IsWorksheet(wb[n])
  THEN [result EXCEPT !.errors = Append(@, << "Erro ao processar planilha", n >>)]
  ELSE
  LET row_products == extract_products_from_sheet(wb[n])
      sheet_images == extract_images_from_sheet(wb, wb[n], timestamp)
      all_products == result.products \o row_products
      all_images   == result.images \o sheet_images
      assoc        == associate_images_with_products(all_products, all_images)
  IN  [products |-> assoc.products,
       images |-> all_images,
       errors |-> IF assoc.raised
                  THEN Append(result.errors, << "Erro ao processar planilha", n >>)
                  ELSE result.errors]

----------------------------------------------------------------------------
(* The page-level functions applied to one page of OCR blocks              *)

VARIABLES
  ocr_results,   \* the blocks run_paddle_ocr / run_ocr_on_image returned
  image_ok,      \* whether the image file of the page could be read
  products,      \* the list the function builds and returns
  pc,            \* "start", then the function that runs or has run
  todo,          \* the elements the loop of the function has yet to visit
  current_product,  \* << >> for None, << product >> for the product in progress
  wb,            \* the sheets of the workbook openpyxl loaded
  result,        \* the dictionary extract_products_fixed_columns returns
  pdf,           \* the PDF file a top-level run is given: its pages
  output_json_path,  \* the argument of the run: << >> for None, << path >>
  files,         \* the JSON files on disk: << >> or << the array written >>
  returned       \* << >> while the run goes on, << value >> once it returned

vars == << ocr_results, image_ok, products, pc, todo, current_product, wb, result,
           pdf, output_json_path, files, returned >>

\* the state of a top-level PDF run
run_vars == << pdf, output_json_path, files, returned >>

\* the paths a run can write its JSON to: the one the caller passes and the
\* one derived from the name of the PDF
GIVEN_JSON_PATH == "saida.json"

DEFAULT_JSON_PATH == "catalogo_products.json"

JsonPaths == {GIVEN_JSON_PATH, DEFAULT_JSON_PATH}

\* no file written yet
NoFiles == [path \in JsonPaths |-> << >>]

\* no PDF run is under way
IdleRun ==
  /\ pdf = [converts |-> FALSE, pages |-> << >>]
  /\ output_json_path = << >>
  /\ files = NoFiles
  /\ returned = << >>

\* result = {"products": [], "images": [], "errors": []}
EmptyResult == [products |-> << >>, images |-> << >>, errors |-> << >>]

MaxBlocks == 2

PAGE_NUMBER == 1

PageTexts ==
  { << "M", "e", "s", "a" >>,
    << "M", "e", "s", "a", " " >>,
    << "L", "o", "t", "e" >>,
    << "p", "r", "e", "t", "o" >>,
    << "a", "b", "c" >>,
    << "R", "$", " ", "4", "5", ",", "0", "0" >>,
    << " " >> }

\* << y, area >> of a block: 10 and 50 are within one line group of
\* extract_products_by_lines and in different bands of 20; 200 is a line apart
PagePositions == { << 10, 1 >>, << 50, 2 >>, << 200, 1 >> }

\* the page of the blocks with the texts and positions c; a block's id is
\* its index, as run_paddle_ocr numbers them
Page(c) ==
  [i \in 1..Len(c) |-> [id |-> i - 1, text |-> c[i][1],
                        center |-> << 0, c[i][2][1] >>, area |-> c[i][2][2]]]

\* the page has at most MaxBlocks blocks
Init ==
  /\ \E k \in 0..MaxBlocks :
       \E c \in [1..k -> PageTexts \X PagePositions] : ocr_results = Page(c)
  /\ image_ok = TRUE
  /\ products = << >>
  /\ pc = "start"
  /\ todo = << >>
  /\ current_product = << >>
  /\ wb = << >>
  /\ result = EmptyResult
  /\ IdleRun

ClusterBlocks ==
  /\ pc = "start"
  /\ products' = cluster_blocks_into_products(ocr_results)
  /\ pc' = "cluster_blocks_into_products"
  /\ UNCHANGED << ocr_results, image_ok, todo, current_product >>
  /\ UNCHANGED << wb, result >>
  /\ UNCHANGED run_vars

ByLines ==
  /\ pc = "start"
  /\ products' = extract_products_by_lines(ocr_results)
  /\ pc' = "extract_products_by_lines"
  /\ UNCHANGED << ocr_results, image_ok, todo, current_product >>
  /\ UNCHANGED << wb, result >>
  /\ UNCHANGED run_vars

ProcessImageForProducts ==
  /\ pc = "start"
  /\ image_ok' \in BOOLEAN
  /\ products' = process_image_for_products(ocr_results, ImagePath(PAGE_NUMBER),
                                            PAGE_NUMBER, image_ok')
  /\ pc' = "process_image_for_products"
  /\ UNCHANGED << ocr_results, todo, current_product >>
  /\ UNCHANGED << wb, result >>
  /\ UNCHANGED run_vars

ExtractProductsFromOcrResults ==
  /\ pc = "start"
  /\ image_ok' \in BOOLEAN
  /\ products' = image_extract_products_from_ocr_results(
                   ocr_results, ImagePath(PAGE_NUMBER), image_ok')
  /\ pc' = "extract_products_from_ocr_results"
  /\ UNCHANGED << ocr_results, todo, current_product >>
  /\ UNCHANGED << wb, result >>
  /\ UNCHANGED run_vars

Next ==
  \/ ClusterBlocks
  \/ ByLines
  \/ ProcessImageForProducts
  \/ ExtractProductsFromOcrResults

Spec == Init /\ [][Next]_vars

----------------------------------------------------------------------------
(* The loops of the three extractors, one iteration per step               *)

MaxFoldBlocks == 3

FoldTexts ==
  { << "M", "e", "s", "a" >>,
    << "p", "r", "e", "t", "o" >>,
    << "1", ".", "2", ".", "3", ".", "4" >>,
    << "R", "$", " ", "4", "5", ",", "0", "0" >>,
    << "R", "$", " ", "5", "0", ",", "0", "0" >> }

\* the distance between the blocks of a page of FoldPages: each block is a
\* line of group_text_blocks (further apart than DEFAULT_MAX_DISTANCE) and a
\* vertical group of its own (further apart than GROUP_HEIGHT)
LINE_GAP == 2 * DEFAULT_MAX_DISTANCE

\* the page of the blocks with the texts c, one below the other
FoldPage(c) ==
  [i \in 1..Len(c) |-> [id |-> i - 1, text |-> c[i],
                        center |-> << 0, LINE_GAP * i >>, area |-> 1]]

\* the page has at most MaxFoldBlocks blocks
InitFold ==
  /\ \E k \in 0..MaxFoldBlocks :
       \E c \in [1..k -> FoldTexts] : ocr_results = FoldPage(c)
  /\ image_ok = TRUE
  /\ products = << >>
  /\ pc = "start"
  /\ todo = << >>
  /\ current_product = << >>
  /\ wb = << >>
  /\ result = EmptyResult
  /\ IdleRun

\* cluster_blocks_into_products calls extract_product_from_blocks for the
\* region of a title: the product is created and the blocks are sorted
StartBlocks ==
  /\ pc = "start"
  /\ LET titles == SortByY(potential_titles(ocr_results))
     IN  \E i \in 1..Len(titles) :
           /\ current_product' =
                << NewProduct(titles[i].text, identify_category(titles[i].text)) >>
           /\ todo' = SortByY(ProductBlocks(ocr_results, titles, i))
  /\ pc' = "extract_product_from_blocks"
  /\ UNCHANGED << ocr_results, image_ok, products >>
  /\ UNCHANGED << wb, result >>
  /\ UNCHANGED run_vars

\* one iteration of the loop of extract_product_from_blocks
StepBlock ==
  /\ pc = "extract_product_from_blocks"
  /\ todo # << >>
  /\ current_product' = << FoldBlock(current_product[1], Head(todo)) >>
  /\ todo' = Tail(todo)
  /\ UNCHANGED << ocr_results, image_ok, products, pc >>
  /\ UNCHANGED << wb, result >>
  /\ UNCHANGED run_vars

\* extract_product_from_blocks returns the product
ReturnBlocks ==
  /\ pc = "extract_product_from_blocks"
  /\ todo = << >>
  /\ products' = Append(products, current_product[1])
  /\ current_product' = << >>
  /\ pc' = "done"
  /\ UNCHANGED << ocr_results, image_ok, todo >>
  /\ UNCHANGED << wb, result >>
  /\ UNCHANGED run_vars

\* extract_products_by_lines groups the blocks into lines
StartLines ==
  /\ pc = "start"
  /\ todo' = group_text_blocks(ocr_results, DEFAULT_MAX_DISTANCE)
  /\ pc' = "extract_products_by_lines"
  /\ UNCHANGED << ocr_results, image_ok, products, current_product >>
  /\ UNCHANGED << wb, result >>
  /\ UNCHANGED run_vars

\* one iteration of the loop of extract_products_by_lines
StepLine ==
  /\ pc = "extract_products_by_lines"
  /\ todo # << >>
  /\ LET st == LineStep([products |-> products,
                         current_product |-> current_product], Head(todo))
     IN  /\ products' = st.products
         /\ current_product' = st.current_product
  /\ todo' = Tail(todo)
  /\ UNCHANGED << ocr_results, image_ok, pc >>
  /\ UNCHANGED << wb, result >>
  /\ UNCHANGED run_vars

\* extract_products_by_lines adds the last product and returns
ReturnLines ==
  /\ pc = "extract_products_by_lines"
  /\ todo = << >>
  /\ products' = FlushProduct([products |-> products,
                               current_product |-> current_product])
  /\ current_product' = << >>
  /\ pc' = "done"
  /\ UNCHANGED << ocr_results, image_ok, todo >>
  /\ UNCHANGED << wb, result >>
  /\ UNCHANGED run_vars

\* extract_products_from_ocr_results of pdf_ocr_processor.py, called with
\* the one page and its image, groups the results by vertical position
StartGroups ==
  /\ pc = "start"
  /\ todo' = GroupTexts(ocr_results)
  /\ pc' = "extract_products_from_ocr_results"
  /\ UNCHANGED << ocr_results, image_ok, products, current_product >>
  /\ UNCHANGED << wb, result >>
  /\ UNCHANGED run_vars

\* one iteration of the loop over the sorted groups
StepGroup ==
  /\ pc = "extract_products_from_ocr_results"
  /\ todo # << >>
  /\ LET st == GroupStep([products |-> products,
                          current_product |-> current_product], Head(todo),
                         ImagePath(PAGE_NUMBER), PAGE_NUMBER)
     IN  /\ products' = st.products
         /\ current_product' = st.current_product
  /\ todo' = Tail(todo)
  /\ UNCHANGED << ocr_results, image_ok, pc >>
  /\ UNCHANGED << wb, result >>
  /\ UNCHANGED run_vars

\* the last product is added and every product's image path is replaced by
\* the data URI of the file, or by "" when the file cannot be read
ReturnGroups ==
  /\ pc = "extract_products_from_ocr_results"
  /\ todo = << >>
  /\ image_ok' \in BOOLEAN
  /\ products' = PostProcess(FlushOcrProduct([products |-> products,
                                              current_product |-> current_product]),
                             image_ok')
  /\ current_product' = << >>
  /\ pc' = "done"
  /\ UNCHANGED << ocr_results, todo >>
  /\ UNCHANGED << wb, result >>
  /\ UNCHANGED run_vars

NextFold ==
  \/ StartBlocks
  \/ StepBlock
  \/ ReturnBlocks
  \/ StartLines
  \/ StepLine
  \/ ReturnLines
  \/ StartGroups
  \/ StepGroup
  \/ ReturnGroups

SpecFold == InitFold /\ [][NextFold]_vars

----------------------------------------------------------------------------
(* extract_products_fixed_columns on a workbook, one sheet per step         *)

MaxSheets == 2

CODE_X == << "X" >>

CODE_Y == << "Y" >>

\* the header row of a sheet
HeaderRow ==
  [A |-> PyStr(<< "N", "o", "m", "e" >>), B |-> PyNone, C |-> PyNone, D |-> PyNone,
   F |-> PyStr(<< "C", "ó", "d", "i", "g", "o" >>), G |-> PyNone,
   L |-> PyStr(<< "V", "a", "l", "o", "r" >>)]

\* a row of a product with the code
DataRow(codigo) ==
  [A |-> PyStr(<< "S", "o", "f", "a" >>), B |-> PyNone, C |-> PyNone, D |-> PyNone,
   F |-> PyStr(codigo), G |-> PyNone, L |-> PyNum(<< "4", "5", "0" >>)]

\* the rows below the header: at most two products with the codes X and Y
DataRows ==
  { << >>,
    << DataRow(CODE_X) >>,
    << DataRow(CODE_Y) >>,
    << DataRow(CODE_X), DataRow(CODE_X) >>,
    << DataRow(CODE_X), DataRow(CODE_Y) >>,
    << DataRow(CODE_Y), DataRow(CODE_X) >>,
    << DataRow(CODE_Y), DataRow(CODE_Y) >> }

\* the rows the pictures of a sheet are anchored at, in column D: none,
\* one or both of the rows 2 and 3
AnchorRows == { << >>, << 2 >>, << 3 >>, << 2, 3 >> }

\* the sheet at position n of a workbook: the pictures of different sheets
\* have different bytes
Sheet(rows, anchors, n) ==
  [rows |-> << HeaderRow >> \o rows,
   images |-> [k \in 1..Len(anchors) |->
                 [row |-> anchors[k], col |-> 4, data |-> << n, k >>,
                  data_ok |-> TRUE, tiny |-> FALSE]]]

\* the choice of a chart sheet at a position of the workbook
CHART == << "chartsheet" >>

\* the workbook of the sheets with the rows and anchors c
Workbook(c) ==
  [n \in 1..Len(c) |-> IF c[n] = CHART THEN Chartsheet
                       ELSE Sheet(c[n][1], c[n][2], n)]

\* int(time.time()) when a sheet is processed
Timestamps == {1, 2}

\* the workbook has at most MaxSheets sheets
InitExcel ==
  /\ \E k \in 0..MaxSheets :
       \E c \in [1..k -> (DataRows \X AnchorRows) \cup {CHART}] :
         wb = Workbook(c)
  /\ result = EmptyResult
  /\ pc = "start"
  /\ todo = << >>
  /\ ocr_results = << >>
  /\ image_ok = TRUE
  /\ products = << >>
  /\ current_product = << >>
  /\ IdleRun

\* extract_products_fixed_columns opens the workbook and starts the loop
\* over wb.sheetnames
OpenWorkbook ==
  /\ pc = "start"
  /\ result' = EmptyResult
  /\ todo' = [n \in 1..Len(wb) |-> n]
  /\ pc' = "extract_products_fixed_columns"
  /\ UNCHANGED << wb, ocr_results, image_ok, products, current_product >>
  /\ UNCHANGED run_vars

\* one iteration of the loop over the sheets: the products and the images
\* of the sheet are added and the images are associated
SheetStep ==
  /\ pc = "extract_products_fixed_columns"
  /\ todo # << >>
  /\ \E timestamp \in Timestamps :
       result' = ProcessSheet(result, wb, Head(todo), timestamp)
  /\ todo' = Tail(todo)
  /\ UNCHANGED << wb, pc, ocr_results, image_ok, products, current_product >>
  /\ UNCHANGED run_vars

\* the result is printed and returned
ReturnResult ==
  /\ pc = "extract_products_fixed_columns"
  /\ todo = << >>
  /\ pc' = "done"
  /\ UNCHANGED << wb, result, todo, ocr_results, image_ok, products, current_product >>
  /\ UNCHANGED run_vars

NextExcel ==
  \/ OpenWorkbook
  \/ SheetStep
  \/ ReturnResult

SpecExcel == InitExcel /\ [][NextExcel]_vars

----------------------------------------------------------------------------
(* extract_products_from_sheet on one sheet                                *)

MaxDataRows == 2

UNKNOWN_CODE == << "U", "N", "K", "N", "O", "W", "N", "-", "C", "O", "D", "E" >>

EMPTY_MARK == << "_", "E", "M", "P", "T", "Y", "_" >>

\* the values of column A: no value, blanks, a name, a name with blanks
\* around it, the mark of an empty cell
NameCells ==
  { PyNone, PyStr(<< " " >>), PyStr(<< "S", "o", "f", "a" >>),
    PyStr(<< " ", "S", "o", "f", "a", " " >>), PyStr(EMPTY_MARK) }

\* the values of column F: no value, a code, the code of an unknown
\* product with and without blanks around it, the numbers 12 and 0
CodeCells ==
  { PyNone, PyStr(<< "X", "1" >>), PyStr(UNKNOWN_CODE),
    PyStr(<< " " >> \o UNKNOWN_CODE \o << " " >>),
    PyNum(<< "1", "2" >>), PyNum(<< "0" >>) }

SheetRowKinds ==
  { [A |-> nome, B |-> PyNone, C |-> PyNone, D |-> PyNone, F |-> codigo,
     G |-> PyNone, L |-> PyNum(<< "4", "5", "0" >>)] :
      nome \in NameCells, codigo \in CodeCells }

\* the workbook is one sheet of a header and at most MaxDataRows rows
InitSheet ==
  /\ \E k \in 0..MaxDataRows :
       \E rows \in [1..k -> SheetRowKinds] :
         wb = << [rows |-> << HeaderRow >> \o rows, images |-> << >>] >>
  /\ result = EmptyResult
  /\ pc = "start"
  /\ todo = << >>
  /\ ocr_results = << >>
  /\ image_ok = TRUE
  /\ products = << >>
  /\ current_product = << >>
  /\ IdleRun

ExtractProductsFromSheet ==
  /\ pc = "start"
  /\ products' = extract_products_from_sheet(wb[1])
  /\ pc' = "extract_products_from_sheet"
  /\ UNCHANGED << wb, result, todo, ocr_results, image_ok, current_product >>
  /\ UNCHANGED run_vars

NextSheet == ExtractProductsFromSheet

SpecSheet == InitSheet /\ [][NextSheet]_vars

----------------------------------------------------------------------------
(* The top-level runs on a PDF file: process_pdf_with_paddle_ocr of        *)
(* paddle_ocr_extractor.py and process_pdf_with_ocr of pdf_ocr_processor.py *)
(* A page of the PDF is [results, ocr_ok, image_ok]: the blocks the OCR    *)
(* reads on it, whether the OCR of the page runs without raising, and      *)
(* whether the image file of the page can be read back.                    *)

MaxPages == 2

MaxPageBlocks == 1

RunTexts ==
  { << "M", "e", "s", "a" >>,
    << "R", "$", " ", "4", "5", ",", "0", "0" >> }

\* the pages a PDF is made of: a page whose OCR raises has a product on it
PageKinds ==
  { [results |-> FoldPage(<< << "M", "e", "s", "a" >> >>),
     ocr_ok |-> FALSE, image_ok |-> TRUE] }
  \cup
  { [results |-> FoldPage(c), ocr_ok |-> TRUE, image_ok |-> ok] :
      c \in UNION { [1..k -> RunTexts] : k \in 0..MaxPageBlocks },
      ok \in BOOLEAN }

\* convert_pdf_to_images(pdf_path, temp_dir): the paths of the images of
\* the pages, [] when both conversion methods raised
convert_pdf_to_images(file) ==
  IF file.converts THEN [n \in 1..Len(file.pages) |-> ImagePath(n)] ELSE << >>

\* run_paddle_ocr(image_path) and run_ocr_on_image(image_path): the blocks
\* of the page, [] when the OCR raised
run_paddle_ocr(page) == IF page.ocr_ok THEN page.results ELSE << >>

run_ocr_on_image(page) == IF page.ocr_ok THEN page.results ELSE << >>

\* the path the JSON is saved to: the argument, or the one made of the name
\* of the PDF when the argument is None
OutputPath(path) == IF path = << >> THEN DEFAULT_JSON_PATH ELSE path[1]

\* json.dump(array, f) on the file at the path
WriteJson(fs, path, array) == [fs EXCEPT ![path] = << array >>]

\* the post-processing of extract_products_from_ocr_results for the pages
\* of a PDF: each product's image path becomes the data URI of the file of
\* its page, "" when that file cannot be read
PostProcessPages(list, pages) ==
  [k \in 1..Len(list) |->
     [list[k] EXCEPT !.imagem = IF pages[@[2]].image_ok THEN DataUri(@)
                                ELSE << >>]]

\* the PDF has at most MaxPages pages; the caller passes a path or None
InitPdf ==
  /\ \E converts \in BOOLEAN : \E k \in 0..MaxPages :
       \E pages \in [1..k -> PageKinds] :
         pdf = [converts |-> converts, pages |-> pages]
  /\ output_json_path \in { << >>, << GIVEN_JSON_PATH >> }
  /\ files = NoFiles
  /\ returned = << >>
  /\ pc = "start"
  /\ todo = << >>
  /\ products = << >>
  /\ current_product = << >>
  /\ ocr_results = << >>
  /\ image_ok = TRUE
  /\ wb = << >>
  /\ result = EmptyResult

\* process_pdf_with_paddle_ocr converts the PDF; with no image it raises
\* and its except branch writes an empty array when it was given a path
PaddleRunStart ==
  /\ pc = "start"
  /\ LET image_paths == convert_pdf_to_images(pdf)
     IN  IF image_paths = << >>
         THEN /\ files' = IF output_json_path # << >>
                          THEN WriteJson(files, output_json_path[1], << >>)
                          ELSE files
              /\ returned' = IF output_json_path # << >>
                             THEN << output_json_path[1] >>
                             ELSE << "" >>
              /\ todo' = << >>
              /\ pc' = "done"
         ELSE /\ todo' = [n \in 1..Len(image_paths) |-> n]
              /\ pc' = "process_pdf_with_paddle_ocr"
              /\ UNCHANGED << files, returned >>
  /\ products' = << >>
  /\ UNCHANGED << pdf, output_json_path, current_product, ocr_results,
                  image_ok, wb, result >>

\* one iteration of the loop over image_paths: the products of the page
\* are added to all_products
PaddlePageStep ==
  /\ pc = "process_pdf_with_paddle_ocr"
  /\ todo # << >>
  /\ LET i == Head(todo)
         page == pdf.pages[i]
     IN  products' = products \o
           process_image_for_products(run_paddle_ocr(page), ImagePath(i), i,
                                      page.image_ok)
  /\ todo' = Tail(todo)
  /\ UNCHANGED << pc, pdf, output_json_path, files, returned, current_product,
                  ocr_results, image_ok, wb, result >>

\* all_products is saved at the output path, which is returned
PaddleRunReturn ==
  /\ pc = "process_pdf_with_paddle_ocr"
  /\ todo = << >>
  /\ files' = WriteJson(files, OutputPath(output_json_path), products)
  /\ returned' = << OutputPath(output_json_path) >>
  /\ pc' = "done"
  /\ UNCHANGED << todo, products, pdf, output_json_path, current_product,
                  ocr_results, image_ok, wb, result >>

\* process_pdf_with_ocr converts the PDF; with no image it raises and its
\* except branch returns ""
PdfRunStart ==
  /\ pc = "start"
  /\ LET image_paths == convert_pdf_to_images(pdf)
     IN  IF image_paths = << >>
         THEN /\ returned' = << "" >>
              /\ todo' = << >>
              /\ pc' = "done"
         ELSE /\ todo' = [n \in 1..Len(image_paths) |-> n]
              /\ pc' = "process_pdf_with_ocr"
              /\ UNCHANGED returned
  /\ products' = << >>
  /\ current_product' = << >>
  /\ UNCHANGED << pdf, output_json_path, files, ocr_results, image_ok, wb,
                  result >>

\* one iteration of the loop of extract_products_from_ocr_results over the
\* pages: products and current_product are those the earlier pages left
PdfPageStep ==
  /\ pc = "process_pdf_with_ocr"
  /\ todo # << >>
  /\ LET page_idx == Head(todo)
         page_results == run_ocr_on_image(pdf.pages[page_idx])
         st == GroupsFold([products |-> products,
                           current_product |-> current_product],
                          GroupTexts(page_results), ImagePath(page_idx),
                          page_idx)
     IN  /\ products' = st.products
         /\ current_product' = st.current_product
  /\ todo' = Tail(todo)
  /\ UNCHANGED << pc, pdf, output_json_path, files, returned, ocr_results,
                  image_ok, wb, result >>

\* the last product is added, the products are post-processed and saved at
\* the output path, which is returned
PdfRunReturn ==
  /\ pc = "process_pdf_with_ocr"
  /\ todo = << >>
  /\ products' = PostProcessPages(
                   FlushOcrProduct([products |-> products,
                                    current_product |-> current_product]),
                   pdf.pages)
  /\ current_product' = << >>
  /\ files' = WriteJson(files, OutputPath(output_json_path), products')
  /\ returned' = << OutputPath(output_json_path) >>
  /\ pc' = "done"
  /\ UNCHANGED << todo, pdf, output_json_path, ocr_results, image_ok, wb,
                  result >>

NextPdf ==
  \/ PaddleRunStart
  \/ PaddlePageStep
  \/ PaddleRunReturn
  \/ PdfRunStart
  \/ PdfPageStep
  \/ PdfRunReturn

SpecPdf == InitPdf /\ [][NextPdf]_vars

----------------------------------------------------------------------------
(* Every top-level run: of the workbook extractor and of the PDF extractors *)

InitRuns == InitExcel \/ InitPdf

NextRuns == NextExcel \/ NextPdf

SpecRuns == InitRuns /\ [][NextRuns]_vars

----------------------------------------------------------------------------
(* The price of one product through each function that emits a preco:      *)
(* a page of the title "Mesa" above one text, and a sheet of one product   *)
(* whose column L holds one value                                          *)

MaxReais == 4

\* "R$ <reais>,<cents>" with the thousands of the reais separated by "."
CanonicalPrice(reais, cents) ==
  << "R", "$", " " >> \o Group3(IntToStr(reais)) \o << "," >>
  \o (IF cents < 10 THEN << "0" >> ELSE << >>) \o IntToStr(cents)

\* the texts of the price element: prices in the form format_price gives,
\* and prices as a catalogue may print them
PriceTexts ==
  { CanonicalPrice(reais, cents) :
      reais \in (0..MaxReais) \cup {45, 1234}, cents \in {0, 35, 50} }
  \cup
  { << "R", "$", "4", "5" >>,
    << "R", "$", " ", "4", "5", ",", "5" >>,
    << "4", "5", ",", "0", "0" >> }

\* the numbers of a price cell, as str() gives them
PriceNumbers ==
  { << "0" >>, << "4", "5", "0" >>, << "4", ".", "5" >>,
    << "1", "2", "3", "4", ".", "5", "6" >>, << "-", "5" >> }

\* the sheet of one product with the value in column L
PriceSheet(value) ==
  [rows |-> << HeaderRow, [DataRow(CODE_X) EXCEPT !.L = value] >>,
   images |-> << >>]

InitPrice ==
  /\ \E text \in PriceTexts :
       /\ ocr_results = FoldPage(<< << "M", "e", "s", "a" >>, text >>)
       /\ \E value \in {PyStr(text)} \cup {PyNum(n) : n \in PriceNumbers} :
            wb = << PriceSheet(value) >>
  /\ image_ok = TRUE
  /\ products = << >>
  /\ pc = "start"
  /\ todo = << >>
  /\ current_product = << >>
  /\ result = EmptyResult
  /\ IdleRun

NextPrice ==
  \/ ClusterBlocks
  \/ ByLines
  \/ StartGroups
  \/ StepGroup
  \/ ReturnGroups
  \/ ExtractProductsFromSheet

SpecPrice == InitPrice /\ [][NextPrice]_vars

----------------------------------------------------------------------------
(* The colours of one element: a page of the title "Mesa" above one text   *)
(* of words                                                                *)

MaxWords == 2

\* words that are a colour of the lexicons, in either case, and words that
\* hold the letters of a colour
ColorWords ==
  { << "r", "o", "s", "a" >>,
    << "P", "r", "e", "t", "o" >>,
    << "A", "z", "u", "l" >>,
    << "R", "o", "s", "a", "n", "a" >>,
    << "a", "z", "u", "l", "e", "j", "o" >>,
    << "t", "a", "m", "p", "o" >> }

RECURSIVE WordsText(_)
\* the words with one blank between them
WordsText(ws) ==
  IF ws = << >> THEN << >>
  ELSE IF Len(ws) = 1 THEN ws[1]
  ELSE ws[1] \o << " " >> \o WordsText(Tail(ws))

InitColors ==
  /\ \E k \in 1..MaxWords :
       \E ws \in [1..k -> ColorWords] :
         ocr_results = FoldPage(<< << "M", "e", "s", "a" >>, WordsText(ws) >>)
  /\ image_ok = TRUE
  /\ products = << >>
  /\ pc = "start"
  /\ todo = << >>
  /\ current_product = << >>
  /\ wb = << >>
  /\ result = EmptyResult
  /\ IdleRun

NextColors ==
  \/ ClusterBlocks
  \/ ByLines
  \/ StartGroups
  \/ StepGroup
  \/ ReturnGroups

SpecColors == InitColors /\ [][NextColors]_vars

----------------------------------------------------------------------------
(* associate_images_with_products on the products of one sheet and a list  *)
(* of images                                                               *)

MaxImages == 2

\* the codes of the images: the codes of the products, and the code of the
\* header cell, which extract_images_from_sheet gives a picture below the
\* last row
ImageCodes == {CODE_X, CODE_Y, CodeOf(HeaderRow.F)}

\* the image_info entries with the codes, rows and columns c: the column of
\* an anchor is 0 for a picture in column A
ImageInfos(c) ==
  [k \in 1..Len(c) |-> [codigo |-> c[k][1], base64 |-> << "base64", << 1, k >> >>,
                        row |-> c[k][2], col |-> c[k][3]]]

InitAssoc ==
  /\ \E rows \in DataRows : \E k \in 0..MaxImages :
       \E c \in [1..k -> ImageCodes \X {2, 3} \X {0, 4}] :
         result = [products |-> extract_products_from_sheet(Sheet(rows, << >>, 1)),
                   images |-> ImageInfos(c),
                   errors |-> << >>]
  /\ pc = "start"
  /\ wb = << >>
  /\ todo = << >>
  /\ ocr_results = << >>
  /\ image_ok = TRUE
  /\ products = << >>
  /\ current_product = << >>
  /\ IdleRun

\* the call associate_images_with_products(all_products, all_images): the
\* products are updated in place; pc names the exception when it raises
AssociateImages ==
  /\ pc = "start"
  /\ LET assoc == associate_images_with_products(result.products, result.images)
     IN  /\ result' = [result EXCEPT !.products = assoc.products]
         /\ pc' = IF assoc.raised THEN "ZeroDivisionError"
                  ELSE "associate_images_with_products"
  /\ UNCHANGED << wb, todo, ocr_results, image_ok, products, current_product >>
  /\ UNCHANGED run_vars

NextAssoc == AssociateImages

SpecAssoc == InitAssoc /\ [][NextAssoc]_vars

----------------------------------------------------------------------------
(* The loops of the extractors on pages with short texts                   *)

\* a title, a text of a description and texts of at most three characters
ShortTexts ==
  { << "M", "e", "s", "a" >>,
    << "t", "a", "m", "p", "o" >>,
    << "a", "b", "c" >>,
    << "-" >>,
    << " " >> }

\* the page has at most MaxFoldBlocks blocks
InitShort ==
  /\ \E k \in 0..MaxFoldBlocks :
       \E c \in [1..k -> ShortTexts] : ocr_results = FoldPage(c)
  /\ image_ok = TRUE
  /\ products = << >>
  /\ pc = "start"
  /\ todo = << >>
  /\ current_product = << >>
  /\ wb = << >>
  /\ result = EmptyResult
  /\ IdleRun

SpecShort == InitShort /\ [][NextFold]_vars

----------------------------------------------------------------------------
(* group_text_blocks, as extract_products_by_lines calls it, on blocks at  *)
(* positions of which some are nearer than the distance and some are not   *)

MaxGroupBlocks == 3

\* << x, y >> of a block: 0, 60 and 120 are a chain of neighbours nearer
\* than DEFAULT_MAX_DISTANCE whose ends are further apart, 300 is apart
GroupPositions == {0, 5} \X {0, 60, 120, 300}

\* the page of blocks with the text "Mesa" at the positions c
GroupPage(c) ==
  [i \in 1..Len(c) |-> [id |-> i - 1, text |-> << "M", "e", "s", "a" >>,
                        center |-> c[i], area |-> 1]]

InitGroup ==
  /\ \E k \in 0..MaxGroupBlocks :
       \E c \in [1..k -> GroupPositions] : ocr_results = GroupPage(c)
  /\ image_ok = TRUE
  /\ products = << >>
  /\ pc = "start"
  /\ todo = << >>
  /\ current_product = << >>
  /\ wb = << >>
  /\ result = EmptyResult
  /\ IdleRun

NextGroup ==
  \/ StartLines
  \/ StepLine
  \/ ReturnLines

SpecGroup == InitGroup /\ [][NextGroup]_vars

----------------------------------------------------------------------------
(* The titles of cluster_blocks_into_products on pages of few and of ten   *)
(* blocks: a fifth of ten blocks is two                                    *)

MaxFreeBlocks == 2

\* the blocks a page may begin with: none, or eight blocks of a text of a
\* description, each of area 1
PaddingBlocks == {0, 8}

\* << text, area >> of a block: a text that is no keyword, a category
\* keyword and a short text; an area that ties with the first blocks and
\* two larger ones
TitleKinds ==
  { << "L", "o", "t", "e" >>, << "M", "e", "s", "a" >>, << "a", "b" >> }
  \X {1, 2, 3}

\* the page of n blocks "tampo" of area 1 above the blocks c, one block a
\* line
TitlePage(n, c) ==
  [i \in 1..(n + Len(c)) |->
     [id |-> i - 1,
      text |-> IF i <= n THEN << "t", "a", "m", "p", "o" >> ELSE c[i - n][1],
      center |-> << 0, LINE_GAP * i >>,
      area |-> IF i <= n THEN 1 ELSE c[i - n][2]]]

InitTitles ==
  /\ \E n \in PaddingBlocks : \E k \in 0..MaxFreeBlocks :
       \E c \in [1..k -> TitleKinds] : ocr_results = TitlePage(n, c)
  /\ image_ok = TRUE
  /\ products = << >>
  /\ pc = "start"
  /\ todo = << >>
  /\ current_product = << >>
  /\ wb = << >>
  /\ result = EmptyResult
  /\ IdleRun

NextTitles == ClusterBlocks

SpecTitles == InitTitles /\ [][NextTitles]_vars

----------------------------------------------------------------------------
(* python-scripts/extract_image_for_product.py: one call for each product  *)
(* of the first sheet of a workbook.  A picture of sheet._images is        *)
(* [row, col, data, is_bytes]: the row and the column of its anchor        *)
(* (anchor._from.row + 1, anchor._from.col + 1), its bytes, and whether    *)
(* img._data gives bytes.                                                  *)

MaxPictures == 2

\* None
NoData == << "None" >>

\* mutant: only a picture anchored at the target row matches
find_image_near_cell_SameRow(sheet, target_row, target_col) ==
  LET hits == {k \in 1..Len(sheet.images) :
                 /\ sheet.images[k].row = target_row
                 /\ sheet.images[k].col = target_col
                 /\ sheet.images[k].is_bytes}
  IN  IF hits = {} THEN NoData
      ELSE sheet.images[CHOOSE k \in hits : \A j \in hits : k <= j].data

\* find_image_near_cell(sheet, target_row, target_col): the data of the
\* first picture anchored at the target cell or one row above it whose data
\* are bytes
find_image_near_cell(sheet, target_row, target_col) ==
  LET hits == {k \in 1..Len(sheet.images) :
                 /\ \/ /\ sheet.images[k].row = target_row
                       /\ sheet.images[k].col = target_col
                    \/ /\ sheet.images[k].row = target_row - 1
                       /\ sheet.images[k].col = target_col
                 /\ sheet.images[k].is_bytes}
  IN  IF hits = {} THEN NoData
      ELSE sheet.images[CHOOSE k \in hits : \A j \in hits : k <= j].data

\* extract_image_for_product(excel_file_path, product_info_json) for a
\* product_info with excelRowNumber and the column of imageCell: the result
\* it prints; image_base64 and error are NoData for null
extract_image_for_product(sheet, target_row, target_col_index) ==
  LET first_data == find_image_near_cell(sheet, target_row, target_col_index)
      image_data == IF first_data = NoData /\ target_col_index > 1
                    THEN find_image_near_cell(sheet, target_row, target_col_index - 1)
                    ELSE first_data
  IN  IF image_data # NoData
      THEN [product_row |-> target_row,
            image_base64 |-> << "base64", image_data >>,
            error |-> NoData]
      ELSE [product_row |-> target_row,
            image_base64 |-> NoData,
            error |-> << "Nenhuma imagem encontrada perto da linha", target_row >>]

\* the rows of the products and the columns of their image cells
TargetCells == {2, 3} \X {1, 2}

\* the anchors of the pictures: the rows of the products, the row above
\* and the row below them
PictureAnchors == (1..4) \X {1, 2}

\* the sheet with the pictures c: different pictures have different bytes
PictureSheet(c) ==
  [rows |-> << HeaderRow >>,
   images |-> [k \in 1..Len(c) |-> [row |-> c[k][1][1], col |-> c[k][1][2],
                                     data |-> << 1, k >>, is_bytes |-> c[k][2]]]]

\* the calls to make: one for each product, the products at different rows
ProductCalls ==
  { << >> } \cup { << t >> : t \in TargetCells }
  \cup { << p[1], p[2] >> : p \in {q \in TargetCells \X TargetCells : q[1][1] # q[2][1]} }

InitImage ==
  /\ \E k \in 0..MaxPictures :
       \E c \in [1..k -> PictureAnchors \X BOOLEAN] : wb = << PictureSheet(c) >>
  /\ todo \in ProductCalls
  /\ products = << >>
  /\ pc = "start"
  /\ result = EmptyResult
  /\ ocr_results = << >>
  /\ image_ok = TRUE
  /\ current_product = << >>
  /\ IdleRun

\* one run of the script for the next product: the result is printed
ExtractImageForProduct ==
  /\ todo # << >>
  /\ products' = Append(products,
                        extract_image_for_product(wb[1], Head(todo)[1], Head(todo)[2]))
  /\ todo' = Tail(todo)
  /\ pc' = "extract_image_for_product"
  /\ UNCHANGED << wb, result, ocr_results, image_ok, current_product >>
  /\ UNCHANGED run_vars

NextImage == ExtractImageForProduct

SpecImage == InitImage /\ [][NextImage]_vars

----------------------------------------------------------------------------
(* Anchors of a page, as each function selects them                        *)

\* the texts of the lines extract_products_by_lines starts a product at
LineAnchors(blocks) ==
  LET line_groups == group_text_blocks(blocks, DEFAULT_MAX_DISTANCE)
  IN  SelectSeq([g \in 1..Len(line_groups) |-> LineText(line_groups[g])],
                StartsProductLine)

\* the texts of the titles of cluster_blocks_into_products in ascending y;
\* the anchors of the line grouping when the page has no title
ClusterAnchors(blocks) ==
  LET titles == SortByY(potential_titles(blocks))
  IN  IF titles = << >> THEN LineAnchors(blocks)
      ELSE [i \in 1..Len(titles) |-> titles[i].text]

\* the texts of the groups the rule-based extractor starts a product at
GroupAnchors(blocks) == SelectSeq(GroupTexts(blocks), is_product_name)

\* the anchors of the page for the function that has run
Anchors ==
  IF pc = "extract_products_by_lines" THEN LineAnchors(ocr_results)
  ELSE IF pc = "extract_products_from_ocr_results" THEN GroupAnchors(ocr_results)
  ELSE ClusterAnchors(ocr_results)

Names(list) == [k \in 1..Len(list) |-> list[k].nome]

HasText(blocks) == \E k \in 1..Len(blocks) : Strip(blocks[k].text) # << >>

FALLBACK_NAME == << "P", "r", "o", "d", "u", "t", "o", " ", "e", "m", " ", "I", "m", "a", "g", "e", "m" >>

\* the fields of a product that do not depend on the page it is on
Fields(product) ==
  [nome |-> product.nome, descricao |-> product.descricao,
   codigo_comercial |-> product.codigo_comercial, cores |-> product.cores,
   preco |-> product.preco, categoria |-> product.categoria]

----------------------------------------------------------------------------
(* C1: the records of a page are its anchors                               *)

\* C1 (as claimed): after each of cluster_blocks_into_products,
\* extract_products_by_lines and extract_products_from_ocr_results, the
\* records with a non-empty nome are as many as the anchors of the page and
\* the k-th record was started by the k-th anchor.
C1_RecordsAreAnchors ==
  pc # "start" =>
    /\ Len(SelectSeq(products, LAMBDA r : r.nome # << >>)) = Len(Anchors)
    /\ Names(products) = Anchors

\* C1 (amended): the same, except that extract_products_from_ocr_results of
\* process_image.py emits one more record, named "Produto em Imagem" and
\* started by no anchor, when the page has no anchor and has text.
C1_RecordsAreAnchorsOrFallback ==
  pc # "start" =>
    IF /\ pc = "extract_products_from_ocr_results"
       /\ Anchors = << >>
       /\ HasText(ocr_results)
    THEN Names(products) = << FALLBACK_NAME >>
    ELSE /\ Len(SelectSeq(products, LAMBDA r : r.nome # << >>)) = Len(Anchors)
         /\ Names(products) = Anchors

C1_Witness ==
  /\ pc = "extract_products_by_lines"
  /\ Len(Anchors) = 2
  /\ Len(products) = 2

----------------------------------------------------------------------------
(* C5: a page without anchors                                              *)

\* C5 (as claimed): when no element or line of the page is an anchor, no
\* record is emitted.
C5_NoAnchorNoRecord ==
  pc # "start" /\ Anchors = << >> => products = << >>

\* C5 (amended): when the page has no anchor, cluster_blocks_into_products,
\* extract_products_by_lines and process_image_for_products emit no record;
\* extract_products_from_ocr_results of process_image.py emits no record
\* when the page has no text and exactly the fallback record otherwise.
C5_NoAnchorNoRecordButFallback ==
  pc # "start" /\ Anchors = << >> =>
    IF pc = "extract_products_from_ocr_results" /\ HasText(ocr_results)
    THEN Len(products) = 1 /\ products[1].nome = FALLBACK_NAME
    ELSE products = << >>

C5_Witness ==
  /\ pc = "process_image_for_products"
  /\ HasText(ocr_results)
  /\ Anchors = << >>
  /\ products = << >>

----------------------------------------------------------------------------
(* C6: a page of two anchors                                               *)

TwoAnchorPage ==
  /\ pc = "cluster_blocks_into_products"
  /\ Len(ocr_results) = 2
  /\ Len(potential_titles(ocr_results)) = 2

OnlyNome(product) ==
  /\ product.preco = << >>
  /\ product.codigo_comercial = << >>
  /\ product.cores = << >>
  /\ product.categoria = << >>
  /\ product.descricao = << >>

SameHeight == CenterY(ocr_results[1]) = CenterY(ocr_results[2])

\* the region of the k-th record holds no element but its own anchor, and
\* the anchor is recognised as the title: the region of the first of two
\* anchors at one height is empty, the region of the second then holds both;
\* an anchor whose text has a blank at either end differs from its stripped
\* text and is folded as an element of its own record
RegionIsBare(k) ==
  IF SameHeight THEN k = 1
  ELSE Strip(products[k].nome) = products[k].nome

----------------------------------------------------------------------------
(* C10: the two strategies of process_image_for_products                   *)

ValidCount(list) == Len(SelectSeq(list, LAMBDA r : r.nome # << >>))

\* C10 (as claimed): process_image_for_products returns the result of the
\* strategy with more records of non-empty nome, and the result of the first
\* strategy (cluster_blocks_into_products) when both have as many.
C10_GreaterCountWins ==
  pc = "process_image_for_products" /\ ocr_results # << >> =>
    [k \in 1..Len(products) |-> Fields(products[k])] =
      IF ValidCount(extract_products_by_lines(ocr_results))
           > ValidCount(cluster_blocks_into_products(ocr_results))
      THEN [k \in 1..Len(extract_products_by_lines(ocr_results)) |->
              Fields(extract_products_by_lines(ocr_results)[k])]
      ELSE [k \in 1..Len(cluster_blocks_into_products(ocr_results)) |->
              Fields(cluster_blocks_into_products(ocr_results)[k])]

\* C10 (amended): process_image_for_products returns the records of
\* cluster_blocks_into_products; extract_products_by_lines is only tried when
\* those are none, and never replaces them, also when it yields more records.
C10_FirstStrategyWins ==
  pc = "process_image_for_products" /\ ocr_results # << >> =>
    [k \in 1..Len(products) |-> Fields(products[k])] =
      [k \in 1..Len(cluster_blocks_into_products(ocr_results)) |->
         Fields(cluster_blocks_into_products(ocr_results)[k])]

C10_Witness ==
  /\ pc = "process_image_for_products"
  /\ Len(products) = 1
  /\ ValidCount(extract_products_by_lines(ocr_results)) = 2

----------------------------------------------------------------------------
(* C4: the image of the page                                               *)

ImageModeDone ==
  pc \in {"process_image_for_products", "extract_products_from_ocr_results"}

\* C4 (as claimed): the image of the page is attached to one record of the
\* page at most.
C4_PageImageAttachedOnce ==
  ImageModeDone =>
    \A j, k \in 1..Len(products) :
      j # k /\ products[j].imagem # << >> => products[k].imagem # products[j].imagem

\* C4 (amended): the image of the page is attached to every record of the
\* page: all records of a page hold the same image, which is the page's when
\* the file could be read and empty otherwise.
C4_PageImageAttachedToAll ==
  ImageModeDone =>
    \A k \in 1..Len(products) :
      products[k].imagem =
        IF image_ok THEN DataUri(ImagePath(PAGE_NUMBER)) ELSE << >>

C4_Witness ==
  /\ pc = "process_image_for_products"
  /\ Len(products) = 2
  /\ products[1].imagem # << >>
  /\ products[1].imagem = products[2].imagem

----------------------------------------------------------------------------
(* C7, C8: the fields of the record in progress                            *)

\* a step of a loop that leaves the record in progress the same record: no
\* product is started, added or returned
SameRecord ==
  /\ pc' = pc
  /\ products' = products
  /\ current_product # << >>
  /\ current_product' # << >>

NoDuplicate(list) ==
  \A i, j \in 1..Len(list) : list[i] = list[j] => i = j

IsPrefix(a, b) == Len(a) <= Len(b) /\ SubSeq(b, 1, Len(a)) = a

\* C7: within one record, once preco is set, no later element of the record
\* changes it, in extract_product_from_blocks, extract_products_by_lines and
\* extract_products_from_ocr_results.
C7_PrecoFirstWriterWins ==
  [][SameRecord /\ current_product[1].preco # << >>
       => current_product'[1].preco = current_product[1].preco]_vars

\* C8: after every element folded into a record, codigo_comercial and cores
\* hold no value twice and keep the values they held, in the order they
\* held them.
C8_NoDuplicateFirstSeenOrder ==
  [][SameRecord =>
       /\ NoDuplicate(current_product'[1].codigo_comercial)
       /\ NoDuplicate(current_product'[1].cores)
       /\ IsPrefix(current_product[1].codigo_comercial,
                   current_product'[1].codigo_comercial)
       /\ IsPrefix(current_product[1].cores, current_product'[1].cores)]_vars

----------------------------------------------------------------------------
(* C2, C3: the association of images with products                         *)

\* the products of the result that hold an image
WithImages == {i \in 1..Len(result.products) : result.products[i].imagem # << >>}

\* the images of the result a product holds: those its imagem was built
\* from and its image_id names
SourcesOf(product) ==
  {k \in 1..Len(result.images) :
     /\ PngUri(result.images[k]) = product.imagem
     /\ result.images[k].codigo = product.image_id}

\* C2: after every call of associate_images_with_products on the cumulative
\* lists, no image is attached to two products, and what a product holds is
\* one image of the list.
C2_ImageOnOneProduct ==
  /\ \A i, j \in WithImages :
       result.products[i].imagem = result.products[j].imagem => i = j
  /\ \A i \in WithImages : Cardinality(SourcesOf(result.products[i])) = 1

\* two sheets were processed, two products have the same code and an image
\* with that code exists: one of the two holds it, the other holds none
C2_Witness ==
  /\ pc = "done"
  /\ Len(wb) = 2
  /\ \E i, j \in 1..Len(result.products) :
       /\ i < j
       /\ result.products[i].codigo = result.products[j].codigo
       /\ i \in WithImages
       /\ j \notin WithImages
       /\ result.products[j].row = 2

CountCode(list, codigo) ==
  Cardinality({k \in 1..Len(list) : list[k].codigo = codigo})

\* N products and N images that match exactly: every code is the code of
\* as many images as products
ExactMatchable ==
  /\ Len(result.products) = Len(result.images)
  /\ Len(result.products) > 0
  /\ \A i \in 1..Len(result.products) :
       CountCode(result.products, result.products[i].codigo)
         = CountCode(result.images, result.products[i].codigo)

\* C3: given N products and N images that match exactly, after
\* associate_images_with_products every product holds an image and no two
\* products hold the same image.
C3_ExactMatchIsBijection ==
  pc = "extract_products_fixed_columns" /\ ExactMatchable =>
    /\ WithImages = 1..Len(result.products)
    /\ \A i, j \in WithImages :
         result.products[i].imagem = result.products[j].imagem => i = j

----------------------------------------------------------------------------
(* C9: the rows of a sheet and its products                                *)

\* the products extract_products_from_sheet made of row r
ProductsOfRow(r) == {k \in 1..Len(products) : products[k].row = r}

\* the text of a cell without the blanks around it, "" for no value
CellText(value) ==
  IF value.kind = "None" THEN << >> ELSE Strip(PyToStr(value))

\* C9 (as claimed): every row from 2 on with a non-empty name yields one
\* product whose row is the row index, no row yields more than one, and a
\* row whose code is empty or "UNKNOWN-CODE" yields none.
C9_NamedRowYieldsProduct ==
  pc = "extract_products_from_sheet" =>
    \A r \in 2..max_row(wb[1]) :
      /\ Cardinality(ProductsOfRow(r)) <= 1
      /\ CellText(wb[1].rows[r].A) # << >> => Cardinality(ProductsOfRow(r)) = 1
      /\ CellText(wb[1].rows[r].F) \in {<< >>, UNKNOWN_CODE}
           => ProductsOfRow(r) = {}

\* a name or a code that makes a row a product: a text that is not blank
\* and not "_EMPTY_", or a number other than 0
IsValue(value) ==
  /\ CellText(value) \notin {<< >>, EMPTY_MARK}
  /\ value.kind = "num" => Truthy(value)

\* C9 (amended): a row from 2 on yields one product, whose row is the row
\* index, whose nome is the name and whose codigo is the code without the
\* blanks around them, when both its name and its code are values and the
\* code is not "UNKNOWN-CODE"; every other row, and row 1, yields none; the
\* products are in the order of their rows.
C9_ValidRowYieldsProduct ==
  pc = "extract_products_from_sheet" =>
    /\ \A k \in 1..Len(products) : products[k].row \in 2..max_row(wb[1])
    /\ \A j, k \in 1..Len(products) : j < k => products[j].row < products[k].row
    /\ \A r \in 2..max_row(wb[1]) :
         IF /\ IsValue(wb[1].rows[r].A)
            /\ IsValue(wb[1].rows[r].F)
            /\ CellText(wb[1].rows[r].F) # UNKNOWN_CODE
         THEN /\ Cardinality(ProductsOfRow(r)) = 1
              /\ \A k \in ProductsOfRow(r) :
                   /\ products[k].nome.s = CellText(wb[1].rows[r].A)
                   /\ products[k].codigo = CellText(wb[1].rows[r].F)
         ELSE ProductsOfRow(r) = {}

\* row 2 has a name and the code "UNKNOWN-CODE", row 3 has a name and a
\* code: the one product is the product of row 3
C9_Witness ==
  /\ pc = "extract_products_from_sheet"
  /\ max_row(wb[1]) = 3
  /\ IsValue(wb[1].rows[2].A)
  /\ CellText(wb[1].rows[2].F) = UNKNOWN_CODE
  /\ Len(products) = 1
  /\ products[1].row = 3

----------------------------------------------------------------------------
(* The top-level runs                                                      *)

\* the run has returned
RunDone == returned # << >>

\* C11: every top-level run ends with a JSON array written as its output:
\* the value it returns is the path of a file that holds the array, also
\* when the conversion of the PDF fails and whether or not the caller passed
\* an output path
C11_RunWritesJsonArray ==
  RunDone => /\ returned[1] \in JsonPaths
             /\ files[returned[1]] # << >>

\* the loop of extract_products_fixed_columns is at a sheet whose processing
\* raises: a sheet that is no worksheet, or no product so far and none in the
\* sheet (associate_images_with_products divides by len(products))
SheetFails ==
  /\ pc = "extract_products_fixed_columns"
  /\ todo # << >>
  /\ \/ ~IsWorksheet(wb[Head(todo)])
     \/ /\ result.products = << >>
        /\ extract_products_from_sheet(wb[Head(todo)]) = << >>

\* the loop of process_pdf_with_paddle_ocr is at a page whose OCR raises
PageFails ==
  /\ pc = "process_pdf_with_paddle_ocr"
  /\ todo # << >>
  /\ ~pdf.pages[Head(todo)].ocr_ok

\* the step leaves the loop at the next unit, and the run has not returned
LoopGoesOn == pc' = pc /\ todo' = Tail(todo) /\ returned' = returned

\* the only run-level error list of the programs is result["errors"]
ErrorRecorded == Len(result'.errors) = Len(result.errors) + 1

\* C12 as stated: when the processing of a page or of a sheet fails, the
\* loop goes on with the remaining units, the failed unit adds no record and
\* the failure is added to the run's error list
C12_FailedUnitIsRecorded ==
  [][/\ SheetFails => /\ LoopGoesOn
                      /\ result'.products = result.products
                      /\ ErrorRecorded
     /\ PageFails => /\ LoopGoesOn
                     /\ products' = products
                     /\ ErrorRecorded]_vars

\* C12 amended: a failed sheet adds no product, is recorded in
\* result["errors"] and the loop goes on; a page whose OCR fails adds no
\* product and the loop goes on, and nothing is recorded in the run's output
C12_FailedUnitIsIsolated ==
  [][/\ SheetFails => /\ LoopGoesOn
                      /\ result'.products = result.products
                      /\ ErrorRecorded
     /\ PageFails => /\ LoopGoesOn
                     /\ products' = products
                     /\ files' = files
                     /\ result' = result]_vars

\* a run over a workbook whose first sheet failed and whose second sheet
\* gave a product
C12_Witness ==
  /\ pc = "done"
  /\ Len(wb) = 2
  /\ ~IsWorksheet(wb[1])
  /\ Len(result.errors) = 1
  /\ result.products # << >>

\* a run over a PDF whose first page failed in the OCR and whose second page
\* gave a product
C12_PageWitness ==
  /\ RunDone
  /\ Len(pdf.pages) = 2
  /\ ~pdf.pages[1].ocr_ok
  /\ returned[1] \in JsonPaths
  /\ files[returned[1]] # << >>
  /\ files[returned[1]][1] # << >>
  /\ \A k \in 1..Len(files[returned[1]][1]) : files[returned[1]][1][k].pagina = 2

\* the loop over the pages of a PDF is at a page
AtPage ==
  /\ pc \in {"process_pdf_with_paddle_ocr", "process_pdf_with_ocr"}
  /\ todo # << >>

\* C13: pages are independent: the elements of a page modify no record
\* whose anchor lies on an earlier page; the records the earlier pages
\* emitted stay as they are, and the record an earlier page left in progress
\* is emitted as it is
C13_PagesAreIndependent ==
  [][AtPage =>
       /\ IsPrefix(products, products')
       /\ current_product # << >> =>
            \/ current_product' = current_product
            \/ /\ Len(products') > Len(products)
               /\ products'[Len(products) + 1] = current_product[1]]_vars

----------------------------------------------------------------------------
(* C14, C15: the form of a price and its round trip                        *)

\* "R$", one space, an integer part (digits, "." between the thousands), a
\* comma and two digits
HasPriceForm(t) ==
  /\ Len(t) >= 7
  /\ SubSeq(t, 1, 3) = << "R", "$", " " >>
  /\ IsDigit(t[4])
  /\ \A i \in 4..(Len(t) - 3) : IsDigit(t[i]) \/ t[i] = "."
  /\ t[Len(t) - 2] = ","
  /\ IsDigit(t[Len(t) - 1])
  /\ IsDigit(t[Len(t)])

\* C14: every non-empty preco of an emitted record has the form "R$", one
\* space, integer part, comma, two fraction digits, whichever function
\* emitted the record: cluster_blocks_into_products through
\* extract_product_from_blocks, extract_products_by_lines,
\* extract_products_from_ocr_results, extract_products_from_sheet through
\* format_price
C14_PrecoHasPriceForm ==
  \A k \in 1..Len(products) :
    products[k].preco # << >> => HasPriceForm(products[k].preco)

\* the text of the price element of the page
PriceText == ocr_results[2].text

\* a price in the form format_price gives: the integer part without leading
\* zeros, its thousands separated by "."
IsCanonicalPrice(t) ==
  /\ HasPriceForm(t)
  /\ LET whole == SubSeq(t, 4, Len(t) - 3)
     IN  whole = Group3(StripZeros(RemoveChar(whole, ".")))

\* C15: a canonical price text parsed to cents by is_price and rendered
\* again as extract_product_from_blocks renders it is the same text, and so
\* is the preco of the record; format_price of a preco it gave is that preco
C15_PriceRoundTrip ==
  /\ pc = "cluster_blocks_into_products" /\ IsCanonicalPrice(PriceText) =>
       /\ is_price(PriceText).ok
       /\ RenderPrice(is_price(PriceText).cents) = PriceText
       /\ \A k \in 1..Len(products) :
            products[k].preco # << >> => products[k].preco = PriceText
  /\ pc = "extract_products_from_sheet" =>
       \A k \in 1..Len(products) :
         format_price(PyStr(products[k].preco)) = products[k].preco

----------------------------------------------------------------------------
(* C16: the colours of a text                                              *)

\* the word occurs in the text in any letter case with no letter, digit or
\* "_" next to it
OccursAsWord(word, text) ==
  \E i \in 1..Len(text) :
    /\ i + Len(word) - 1 <= Len(text)
    /\ Lower(SubSeq(text, i, i + Len(word) - 1)) = word
    /\ i = 1 \/ ~IsWordChar(text[i - 1])
    /\ i + Len(word) - 1 = Len(text) \/ ~IsWordChar(text[i + Len(word)])

\* the text of the element below the title
ElementText == ocr_results[2].text

\* C16: extract_colors returns a colour of the lexicon for a text exactly
\* when the colour occurs in the text as a whole word, in any letter case,
\* and is_color of pdf_ocr_processor.py holds exactly when a colour of its
\* list does; the record cluster_blocks_into_products makes of the title
\* holds the colours that are whole words of the element
C16_ColorsAreWholeWords ==
  /\ extract_colors(ElementText) =
       LET hit == SelectSeq(COLOR_LIST, LAMBDA color : OccursAsWord(color, ElementText))
       IN  [i \in 1..Len(hit) |-> Capitalize(hit[i])]
  /\ is_color(ElementText) <=>
       \E k \in 1..Len(is_color_colors) : OccursAsWord(is_color_colors[k], ElementText)
  /\ pc = "cluster_blocks_into_products" =>
       \A k \in 1..Len(products) :
         \A j \in 1..Len(products[k].cores) :
           OccursAsWord(Lower(products[k].cores[j]), ElementText)

----------------------------------------------------------------------------
(* C17: the records before the current one                                 *)

\* an iteration of the loop of extract_products_by_lines or of
\* extract_products_from_ocr_results: one line or group is folded
ElementStep ==
  /\ pc \in {"extract_products_by_lines", "extract_products_from_ocr_results"}
  /\ pc' = pc
  /\ todo # << >>

\* C17: the nome of a record is set by its anchor and no later element
\* changes it; an element adds to the records already emitted at most the
\* record that was in progress, as it was, and changes no field of a record
\* emitted before: only the record in progress takes fields
C17_EarlierRecordsAreFrozen ==
  [][ElementStep =>
       /\ SameRecord => current_product'[1].nome = current_product[1].nome
       /\ IsPrefix(products, products')
       /\ products' # products =>
            /\ current_product # << >>
            /\ products' = Append(products, current_product[1])
            /\ current_product' # << >>
            /\ current_product'[1].preco = << >>]_vars

\* the first record was emitted without a price when the second anchor was
\* met, and a price met later went to the second record
C17_Witness ==
  /\ pc = "extract_products_by_lines"
  /\ Len(products) = 1
  /\ products[1].preco = << >>
  /\ current_product # << >>
  /\ current_product[1].preco # << >>
  /\ todo = << >>

----------------------------------------------------------------------------
(* C18, C19: the passes of associate_images_with_products                  *)

\* the image no product's code names, at the row of the product and in
\* column 0: the exact pass leaves it unused and its row/column key is the
\* key of the product
UnusedRowImage(product) ==
  /\ HasImageRow(result.images, << product.row, 0 >>)
  /\ \A j \in 1..Len(result.products) :
       result.products[j].codigo # ImageByRow(result.images, << product.row, 0 >>).codigo

\* C18: the row/column pass is applied to the products the exact pass left
\* without an image: a product whose code is the code of no image and whose
\* row/column key is the key of an unused image holds that image after
\* associate_images_with_products
C18_RowPassGivesImage ==
  pc = "associate_images_with_products" =>
    \A i \in 1..Len(result.products) :
      /\ ~HasImageCode(result.images, result.products[i].codigo)
      /\ UnusedRowImage(result.products[i])
      => result.products[i].imagem =
           PngUri(ImageByRow(result.images, << result.products[i].row, 0 >>))

\* C19: associate_images_with_products raises for no list of products and
\* no list of images, and extract_products_fixed_columns records no error
\* for a sheet whose products and images it associates
C19_NoMatchNeverRaises ==
  /\ pc # "ZeroDivisionError"
  /\ pc = "extract_products_fixed_columns" =>
       \A k \in 1..Len(result.errors) : ~IsWorksheet(wb[result.errors[k][2]])

----------------------------------------------------------------------------
(* C20: the element of the anchor in its own region                        *)

\* the titles of the page in the order cluster_blocks_into_products takes
\* them
Titles == SortByY(potential_titles(ocr_results))

\* the record of the i-th title made of its region without the element of
\* the title
WithoutAnchor(i) ==
  extract_product_from_blocks(
    SelectSeq(ProductBlocks(ocr_results, Titles, i),
              LAMBDA block : block # Titles[i]),
    Titles[i].text)

\* C20: the element chosen as the anchor of a record is skipped when the
\* region of the record is folded: for every anchor text, codigo_comercial,
\* preco, cores and descricao of the record are what the other elements of
\* the region give
C20_AnchorIsSkipped ==
  pc = "cluster_blocks_into_products" /\ Titles # << >> =>
    /\ Len(products) = Len(Titles)
    /\ \A i \in 1..Len(Titles) :
         /\ products[i].codigo_comercial = WithoutAnchor(i).codigo_comercial
         /\ products[i].preco = WithoutAnchor(i).preco
         /\ products[i].cores = WithoutAnchor(i).cores
         /\ products[i].descricao = WithoutAnchor(i).descricao

----------------------------------------------------------------------------
(* C21, C22: an element that is both a price and a code                    *)

\* the text passes the code test and the price test with a value that is
\* not 0
CodeAndPrice(text) ==
  /\ is_product_code(text)
  /\ is_price(text).ok
  /\ is_price(text).cents # 0

\* an iteration of the loop of extract_product_from_blocks on an element
\* that is not the title
BlockStep ==
  /\ pc = "extract_product_from_blocks"
  /\ pc' = pc
  /\ todo # << >>
  /\ Strip(Head(todo).text) # current_product[1].nome

\* an iteration of the loop of extract_products_by_lines on a line that is
\* folded into the product in progress
LineFoldStep ==
  /\ pc = "extract_products_by_lines"
  /\ pc' = pc
  /\ todo # << >>
  /\ SameRecord

\* C21: classification is first-match-wins in the order price, code,
\* colour: an element of extract_product_from_blocks that passes the price
\* test and the code test is recorded as the price of the record and not as
\* a code
C21_PriceBeforeCode ==
  [][BlockStep /\ CodeAndPrice(Strip(Head(todo).text)) =>
       /\ current_product'[1].codigo_comercial = current_product[1].codigo_comercial
       /\ current_product[1].preco = << >> =>
            current_product'[1].preco =
              RenderPrice(is_price(Strip(Head(todo).text)).cents)]_vars

\* C22: price and code are exclusive: no element of
\* extract_product_from_blocks and no line of extract_products_by_lines is
\* recorded both as a code and as the price of the record
C22_PriceAndCodeExclusive ==
  [][BlockStep \/ LineFoldStep =>
       ~ /\ current_product'[1].codigo_comercial # current_product[1].codigo_comercial
         /\ current_product'[1].preco # current_product[1].preco]_vars

----------------------------------------------------------------------------
(* C23: short texts                                                        *)

\* the text passes none of the price, code, colour and category tests and
\* has at most three characters
IsNoise(text) ==
  /\ ~is_price(text).ok
  /\ ~is_product_code(text)
  /\ extract_colors(text) = << >>
  /\ identify_category(text) = << >>
  /\ Len(text) <= 3

\* C23: an element that passes none of the tests and whose text has at most
\* three characters (the empty text included) is noise: folding it in
\* extract_product_from_blocks or in extract_products_by_lines changes no
\* field of the record
C23_ShortTextIsNoise ==
  [][\/ BlockStep /\ IsNoise(Strip(Head(todo).text))
     \/ LineFoldStep /\ IsNoise(LineText(Head(todo)))
     => current_product' = current_product]_vars

----------------------------------------------------------------------------
(* C24: the regions of the anchors                                         *)

\* the anchors whose region holds the block
RegionsOf(block) ==
  {i \in 1..Len(Titles) : InSeq(block, ProductBlocks(ocr_results, Titles, i))}

\* C24: in cluster_blocks_into_products every element at or below the first
\* anchor lies in the region of exactly one anchor, and every anchor lies in
\* its own region, also when two anchors have the same y; the records are
\* the records of the regions
C24_RegionsPartitionThePage ==
  pc = "cluster_blocks_into_products" /\ Titles # << >> =>
    /\ Len(products) = Len(Titles)
    /\ \A b \in 1..Len(ocr_results) :
         CenterY(ocr_results[b]) >= CenterY(Titles[1])
           => Cardinality(RegionsOf(ocr_results[b])) = 1
    /\ \A i \in 1..Len(Titles) : i \in RegionsOf(Titles[i])

----------------------------------------------------------------------------
(* C25, C26: the groups of group_text_blocks                               *)

\* the step in which extract_products_by_lines calls group_text_blocks: the
\* groups are todo'
GroupingStep == pc = "start" /\ pc' = "extract_products_by_lines"

\* the groups were made and no line has been folded yet
Grouped ==
  /\ pc = "extract_products_by_lines"
  /\ products = << >>
  /\ current_product = << >>
  /\ todo # << >>

Near(a, b) == Abs(CenterY(a) - CenterY(b)) < DEFAULT_MAX_DISTANCE

\* C25 (as claimed): any two elements of a group of group_text_blocks are
\* within the distance of each other along y.
C25_GroupMembersMutuallyNear ==
  [][GroupingStep =>
       \A g \in 1..Len(todo') : \A i, j \in 1..Len(todo'[g]) :
         Near(todo'[g][i], todo'[g][j])]_vars

\* C25 (amended): in a group of group_text_blocks, every element is within
\* the distance of the element before it in ascending y; two elements of a
\* group that are not neighbours may be further apart.
C25_GroupNeighboursNear ==
  [][GroupingStep =>
       \A g \in 1..Len(todo') :
         LET s == SortByY(todo'[g])
         IN  \A i \in 1..(Len(s) - 1) : Near(s[i], s[i + 1])]_vars

\* a group of three elements whose ends are further apart than the distance
C25_Witness ==
  /\ Grouped
  /\ Len(todo[1]) = 3
  /\ \E i, j \in 1..3 : ~Near(todo[1][i], todo[1][j])

\* the groups that hold the block
GroupsOf(groups, block) ==
  {g \in 1..Len(groups) : InSeq(block, groups[g])}

RECURSIVE TotalLen(_)
TotalLen(groups) ==
  IF groups = << >> THEN 0 ELSE Len(groups[1]) + TotalLen(Tail(groups))

\* C26: group_text_blocks returns a partition of its input: every element is
\* in one group and none is there twice, no group is empty, no input gives
\* no group; two elements adjacent in ascending y share a group exactly when
\* they are within the distance; the groups are in ascending y and the
\* members of a group in ascending x.
C26_GroupsArePartitionInOrder ==
  [][GroupingStep =>
       LET s == SortByY(ocr_results)
       IN  /\ TotalLen(todo') = Len(ocr_results)
           /\ \A b \in 1..Len(ocr_results) :
                Cardinality(GroupsOf(todo', ocr_results[b])) = 1
           /\ \A g \in 1..Len(todo') : todo'[g] # << >>
           /\ \A i \in 1..(Len(s) - 1) :
                GroupsOf(todo', s[i]) = GroupsOf(todo', s[i + 1])
                  <=> Near(s[i], s[i + 1])
           /\ \A g, h \in 1..Len(todo') :
                g < h => \A i \in 1..Len(todo'[g]) : \A j \in 1..Len(todo'[h]) :
                           CenterY(todo'[g][i]) < CenterY(todo'[h][j])
           /\ \A g \in 1..Len(todo') : \A i \in 1..(Len(todo'[g]) - 1) :
                CenterX(todo'[g][i]) <= CenterX(todo'[g][i + 1])]_vars

\* two groups, the first of two elements that were put in the order of
\* their x
C26_Witness ==
  /\ Grouped
  /\ Len(todo) = 2
  /\ Len(todo[1]) = 2
  /\ CenterX(todo[1][1]) < CenterX(todo[1][2])
  /\ CenterY(todo[1][1]) > CenterY(todo[1][2])

----------------------------------------------------------------------------
(* C27: the anchors of cluster_blocks_into_products                        *)

\* the text of the block holds a category keyword
HasKeyword(block) == identify_category(Strip(block.text)) # << >>

\* the blocks of the page with a larger area than the block
Larger(block) ==
  {a \in 1..Len(ocr_results) : ocr_results[a].area > block.area}

\* the blocks of the page that precede the block in descending area: the
\* larger ones, and those of the same area that are earlier on the page
Preceding(block) ==
  Larger(block) \cup
  {a \in 1..Len(ocr_results) :
     ocr_results[a].area = block.area /\ ocr_results[a].id < block.id}

\* the records are named by the blocks of the page that pass the test, in
\* ascending y; they are the records of extract_products_by_lines when no
\* block passes it
RecordsOf(IsAnchor(_)) ==
  LET anchors == SortByY(SelectSeq(ocr_results, IsAnchor))
  IN  IF anchors = << >>
      THEN products = extract_products_by_lines(ocr_results)
      ELSE Names(products) = [i \in 1..Len(anchors) |-> anchors[i].text]

\* C27 (as claimed): an element is an anchor of cluster_blocks_into_products
\* exactly when its text matches a category keyword, or it is among the 20%
\* of the elements of the page with the largest area (fewer than a fifth of
\* the elements are larger) and its text is longer than 3 characters.
C27_KeywordOrTopFifth ==
  pc = "cluster_blocks_into_products" =>
    RecordsOf(LAMBDA block :
                \/ HasKeyword(block)
                \/ /\ 5 * Cardinality(Larger(block)) < Len(ocr_results)
                   /\ Len(Strip(block.text)) > 3)

\* C27 (amended): an element is an anchor exactly when its text matches a
\* category keyword, or it is one of the first max(1, floor(n / 5)) of the n
\* elements of the page in descending order of area (elements of equal area
\* in the order of the page) and its stripped text is longer than 3
\* characters.
C27_KeywordOrFirstByArea ==
  pc = "cluster_blocks_into_products" =>
    RecordsOf(LAMBDA block :
                \/ HasKeyword(block)
                \/ /\ Cardinality(Preceding(block)) < Max(1, Len(ocr_results) \div 5)
                   /\ Len(Strip(block.text)) > 3)

\* a page of ten elements with two anchors: one of the two largest, whose
\* text is long enough, and a smaller one with a keyword; the other of the
\* two largest has a short text and is no anchor
C27_Witness ==
  /\ pc = "cluster_blocks_into_products"
  /\ Len(ocr_results) = 10
  /\ Len(products) = 2
  /\ \E a, b, c \in 1..10 :
       /\ Cardinality(Preceding(ocr_results[a])) < 2
       /\ Len(ocr_results[a].text) <= 3
       /\ Cardinality(Preceding(ocr_results[b])) < 2
       /\ ~HasKeyword(ocr_results[b])
       /\ products[1].nome = ocr_results[b].text
       /\ Preceding(ocr_results[c]) # {}
       /\ HasKeyword(ocr_results[c])

----------------------------------------------------------------------------
(* C28, C29: the picture of a product                                      *)

\* a run of extract_image_for_product: the call is Head(todo), the result
\* is the last of products'
ImageCall == todo # << >> /\ pc' = "extract_image_for_product"

\* some picture of the sheet is anchored in the column at one of the rows
AnchoredAt(rows, col) ==
  \E k \in 1..Len(wb[1].images) :
    wb[1].images[k].row \in rows /\ wb[1].images[k].col = col

\* some picture of the sheet whose data are bytes is anchored in the column
\* at one of the rows
BytesAnchoredAt(rows, col) ==
  \E k \in 1..Len(wb[1].images) :
    /\ wb[1].images[k].row \in rows
    /\ wb[1].images[k].col = col
    /\ wb[1].images[k].is_bytes

\* C28 (as claimed): find_image_near_cell returns an image for a target
\* cell exactly when some image of the sheet is anchored in the same column
\* at the target row, the row above or the row below.
C28_ImageWithinOneRow ==
  [][ImageCall =>
       LET row == Head(todo)[1]
           col == Head(todo)[2]
       IN  find_image_near_cell(wb[1], row, col) # NoData
             <=> AnchoredAt({row - 1, row, row + 1}, col)]_vars

\* C28 (amended): find_image_near_cell returns the data of an image exactly
\* when some image of the sheet whose data are bytes is anchored in the
\* same column at the target row or the row above; an image anchored at the
\* row below is no match.  extract_image_for_product returns an image
\* exactly when find_image_near_cell does for the column of the image cell
\* or for the column to its left.
C28_ImageAtRowOrAbove ==
  [][ImageCall =>
       LET row == Head(todo)[1]
           col == Head(todo)[2]
       IN  /\ find_image_near_cell(wb[1], row, col) # NoData
                <=> BytesAnchoredAt({row - 1, row}, col)
           /\ products'[Len(products')].image_base64 # NoData
                <=> \/ BytesAnchoredAt({row - 1, row}, col)
                    \/ col > 1 /\ BytesAnchoredAt({row - 1, row}, col - 1)]_vars

\* the product at row 2 got the picture anchored at row 1 of its column,
\* the product at row 3 got none: the only other picture is anchored at
\* row 4
C28_Witness ==
  /\ pc = "extract_image_for_product"
  /\ todo = << >>
  /\ Len(products) = 2
  /\ products[1].product_row = 2
  /\ products[1].image_base64 # NoData
  /\ products[2].image_base64 = NoData
  /\ Len(wb[1].images) = 2
  /\ wb[1].images[1].row = 1
  /\ wb[1].images[2].row = 4
  /\ wb[1].images[1].col = wb[1].images[2].col
  /\ wb[1].images[2].is_bytes

\* C29: across the calls of extract_image_for_product for the products at
\* different rows of a sheet, no image is returned for two products.
C29_ImageForOneProduct ==
  \A j, k \in 1..Len(products) :
    /\ j # k
    /\ products[j].image_base64 # NoData
    => products[j].image_base64 # products[k].image_base64

----------------------------------------------------------------------------
(* C30: the elements before the first anchor of the page                   *)

\* the page with the texts of the blocks of the set ids made empty
Blanked(ids) ==
  [i \in 1..Len(ocr_results) |->
     IF ocr_results[i].id \in ids
     THEN [ocr_results[i] EXCEPT !.text = << >>]
     ELSE ocr_results[i]]

\* the blocks above the first title of cluster_blocks_into_products
AboveFirstTitle ==
  {ocr_results[i].id : i \in {j \in 1..Len(ocr_results) :
      CenterY(ocr_results[j]) < CenterY(Titles[1])}}

\* the line groups of extract_products_by_lines
PageLines == group_text_blocks(ocr_results, DEFAULT_MAX_DISTANCE)

\* the lines before the first line that starts a product: all of them when
\* no line does
LinesBeforeFirstStart ==
  {k \in 1..Len(PageLines) :
     \A j \in 1..k : ~StartsProductLine(LineText(PageLines[j]))}

\* the blocks of these lines
BeforeFirstStart ==
  UNION {{PageLines[k][i].id : i \in 1..Len(PageLines[k])} :
           k \in LinesBeforeFirstStart}

\* C30: in cluster_blocks_into_products and extract_products_by_lines the
\* elements before the first anchor of the page (above the first title, in
\* the lines before the first line that starts a product) contribute to no
\* record: the records are those of the page on which the texts of these
\* elements are empty.
C30_BeforeFirstAnchorIsIgnored ==
  /\ pc = "cluster_blocks_into_products" /\ Titles # << >>
       => products = cluster_blocks_into_products(Blanked(AboveFirstTitle))
  /\ pc = "extract_products_by_lines"
       => products = extract_products_by_lines(Blanked(BeforeFirstStart))

\* a page of a text above its only title: the record of the title is made
C30_Witness ==
  /\ pc = "cluster_blocks_into_products"
  /\ Len(Titles) = 1
  /\ Len(products) = 1
  /\ \E i \in 1..Len(ocr_results) :
       /\ ocr_results[i].id \in AboveFirstTitle
       /\ Len(Strip(ocr_results[i].text)) > 0

============================================================================
